---- MODULE Spec2Model ----
(***************************************************************************)
(* Cabo card-game backend.                                                 *)
(*                                                                         *)
(* Part 1: the game Engine (services/game_manager.py, class CaboGame):     *)
(* the message queue, the timers and one action per message handler.      *)
(* Part 2: the sequencer and the broadcast path (message_sequencer.py,    *)
(* connection_manager.py, game_orchestrator.py).                           *)
(***************************************************************************)
EXTENDS Integers, Sequences, FiniteSets, TLC

(***************************************************************************)
(* Bounds of the model.                                                    *)
(***************************************************************************)
NumPlayers == 2       \* players seated in the game
NumSuits == 2         \* suits built into the deck (in the order of Suit)
NumRanks == 7         \* ranks built into the deck: the NumRanks highest
NumShuffles == 2      \* shuffles the initial state chooses from
MaxIndex == 1         \* card indices carried by client messages: -1..MaxIndex
MaxQueue == 2         \* messages added before one process_messages call
MaxMessages == 5      \* messages added over one run
MaxSystemAdds == 1    \* system messages among them (SpecEngine only)
MaxEngineMessages == 4 \* messages added over a run that has a system message
MaxTimers == 3        \* timer ids alive at the same time
MaxEvents == 2        \* game events the broadcaster reads from the stream
MaxSeq == 4           \* sequence numbers the room's sequencer gives out
\* websockets that register for the session after its first one
MaxRegistrations == 2
\* snapshots the message processor of the room may write
MaxSaves == 3
\* cards left in the deck where the late game starts
MaxLeft == 1
\* sessions that are not players of the game
MaxVisitors == 1
\* rooms create_room may add to the one of the game
MaxNewRooms == 2
\* HTTP requests to create, join or leave a room
MaxRequests == 3
\* intents pushed to the room's queue
MaxPushes == 3

(***************************************************************************)
(* Optional values: None of an Optional[str] / Optional[int] is Nil, a     *)
(* player id no player has is NoSuchPlayer.                                *)
(***************************************************************************)
Nil == 0 - 1
NoSuchPlayer == 0

(***************************************************************************)
(* Cards, ranks and suits.                                                 *)
(***************************************************************************)
Suit == <<"hearts", "diamonds", "clubs", "spades">>
JOKER == 0
KING == 13
HandSize == 4
NumJokers == 2

NoCard == [rank |-> Nil, suit |-> "none"]

Card(rank, suit) == [rank |-> rank, suit |-> suit]

\* Card.value
value(card) ==
    IF card.rank = JOKER THEN 0
    ELSE IF card.rank = KING /\ card.suit \in {"hearts", "diamonds"} THEN 0 - 1
    ELSE card.rank

\* Card.is_special
is_special(card) == card.rank \in {7, 8, 9, 10, 11, 12, 13}

\* Deck._build_deck: suit-major, the jokers last
build_deck ==
    [i \in 1..(NumSuits * NumRanks) |->
        Card(13 - NumRanks + 1 + ((i - 1) % NumRanks),
             Suit[((i - 1) \div NumRanks) + 1])]
    \o [i \in 1..NumJokers |-> Card(JOKER, "none")]

InitialDeckSize == Len(build_deck)

\* Deck.shuffle: random.shuffle may produce any order; the model takes the
\* rotations of the built deck by 1, 3, 5, ... places.
shuffle(cards, k) ==
    [i \in 1..Len(cards) |->
        cards[((i - 1 + Len(cards) - ((2 * k - 1) % Len(cards))) % Len(cards)) + 1]]

\* Deck.draw pops the last card
DeckTop(deck) == deck[Len(deck)]
DeckRest(deck) == SubSeq(deck, 1, Len(deck) - 1)

(***************************************************************************)
(* Players.  The player at seat index i (0-based) has player_id i + 1.     *)
(***************************************************************************)
PlayerIds == 1..NumPlayers

\* CaboGame._deal_initial_cards: HandSize cards to each player in seat order,
\* each one popped from the end of the deck while the deck has cards
RECURSIVE deal(_, _, _)
deal(deck, hands, n) ==
    IF n >= NumPlayers * HandSize \/ deck = <<>> THEN [deck |-> deck, hands |-> hands]
    ELSE deal(DeckRest(deck),
              [hands EXCEPT ![(n \div HandSize) + 1] = Append(@, DeckTop(deck))],
              n + 1)

(***************************************************************************)
(* State.                                                                  *)
(***************************************************************************)
VARIABLES
    deck,               \* CaboGame.deck.cards
    discard_pile,       \* CaboGame.discard_pile
    players,            \* CaboGame.players: [player_id, hand, has_called_cabo]
    state,              \* CaboGame.state: GameState
    pending_timeouts,   \* CaboGame.pending_timeouts, in insertion order
    message_queue,      \* CaboGame.message_queue
    pc,                 \* "idle" or inside process_messages ("processing")
    events,             \* the events list process_messages is building
    result,             \* what the last handler returned
    added,              \* messages added so far
    injected,           \* system messages added so far
    history,            \* what the claims need to remember of the run
    room_sequences,     \* MessageSequencer: the room's last sequence number
    message_buffers,    \* MessageSequencer: the room's buffered seq_nums
    presence,           \* sessions in the room's presence set
    active,             \* sessions whose connection is active
    tasks,              \* the coroutines that send to the room
    received,           \* seq_nums each session's websocket was sent, in order
    published,          \* game events the broadcaster has read
    client_sequences,   \* MessageSequencer.client_sequences of the room
    last_ack_seq,       \* ConnectionInfo.last_ack_seq of each session's connection
    cursor,             \* the stored cursor:{session} of each session
    player_checkpoints, \* seq_num of each session's personalized checkpoint
    outbox,             \* the stored outbox:{session} of each session
    sent_to,            \* seq_nums send_to_session was called with, per session
    synced,             \* what synchronize_client sent the endpoint's session
    message_data,       \* the drawn card each buffered message carries, by seq_num
    drawer,             \* the player whose card_drawn was the last game event
    connections,        \* ConnectionManager.connections: state by connection id
    session_to_connection, \* ConnectionManager.session_to_connection[session]
    websockets,         \* ConnectionManager.websockets: ids with a websocket
    closed,             \* transports that were closed
    finalised,          \* transports whose endpoint ran its finally block
    registrations,      \* the add_to_room call of each later websocket
    grace,              \* the stored grace:{session} and the grace periods begun
    snapshot,           \* the room's game:{room}:* keys in Redis
    written,            \* every snapshot the keys have held
    card_visibility,    \* whether the game's state has a card_visibility attribute
    processor,          \* create_game / process_game_messages of the room
    loads,              \* the load_game call of each coroutine
    inbound,            \* the list queue:game:{room}:messages and its messages
    database,           \* the tables game_rooms and user_to_room, as committed
    requests            \* the RoomManager call of each HTTP request

syncvars == <<client_sequences, last_ack_seq, cursor, player_checkpoints,
              synced>>
drawvars == <<message_data, drawer>>
netvars == <<room_sequences, message_buffers, presence, active, tasks,
             received, published, outbox, sent_to, syncvars, drawvars>>

gamevars == <<deck, discard_pile, players, state, pending_timeouts>>
connvars == <<connections, session_to_connection, websockets, closed,
              finalised, registrations, grace>>
storevars == <<snapshot, written, card_visibility, processor, loads, inbound>>
roomvars == <<database, requests>>
vars == <<deck, discard_pile, players, state, pending_timeouts,
          message_queue, pc, events, result, added, injected, history, netvars,
          connvars, storevars, roomvars>>

\* The CaboGame object as one value handlers map to a new value
Game == [deck |-> deck, discard_pile |-> discard_pile, players |-> players,
         state |-> state, pending_timeouts |-> pending_timeouts]

\* GameState(GamePhase.SETUP, 0)
GameState == [
    phase |-> "setup",
    current_player_index |-> 0,
    drawn_card |-> NoCard,
    played_card |-> NoCard,
    stack_caller |-> Nil,
    stack_timer_id |-> Nil,
    special_action_player |-> Nil,
    special_action_type |-> "None",
    special_action_timer_id |-> Nil,
    king_viewed_card |-> NoCard,
    king_viewed_player |-> Nil,
    king_viewed_index |-> Nil,
    turn_transition_timer_id |-> Nil,
    setup_timer_id |-> Nil,
    cabo_caller |-> Nil,
    final_round_started |-> FALSE,
    winner |-> Nil,
    temporarily_viewed_cards |-> [p \in PlayerIds |-> {}]]

(***************************************************************************)
(* Timers.                                                                 *)
(***************************************************************************)
TimerRefs(g) == {g.state.stack_timer_id, g.state.special_action_timer_id,
                 g.state.turn_transition_timer_id, g.state.setup_timer_id}

UsedTimers(g) == {g.pending_timeouts[i] : i \in 1..Len(g.pending_timeouts)}
                 \cup TimerRefs(g)

\* uuid.uuid4(): an id different from every id still in use
NewTimerId(g) ==
    IF \E t \in 1..MaxTimers : t \notin UsedTimers(g)
    THEN CHOOSE t \in 1..MaxTimers :
             /\ t \notin UsedTimers(g)
             /\ \A u \in 1..MaxTimers : u \notin UsedTimers(g) => t <= u
    ELSE MaxTimers + 1

\* _schedule_timeout that does not store the timer
schedule_timeout_forgetting(g) == g.pending_timeouts

\* CaboGame._schedule_timeout: the new pending_timeouts (the id is NewTimerId)
schedule_timeout(g) == Append(g.pending_timeouts, NewTimerId(g))

\* dict.pop(id, None)
pop_timeout(pending, id) == SelectSeq(pending, LAMBDA t : t # id)

(***************************************************************************)
(* Messages (GameMessage and its subclasses).                              *)
(***************************************************************************)
DrawCardMessage(p) == [type |-> "draw_card", player_id |-> p]
PlayDrawnCardMessage(p) == [type |-> "play_drawn_card", player_id |-> p]
ReplaceAndPlayMessage(p, i) ==
    [type |-> "replace_and_play", player_id |-> p, hand_index |-> i]
CallStackMessage(p) == [type |-> "call_stack", player_id |-> p]
ExecuteStackMessage(p, i, t) ==
    [type |-> "execute_stack", player_id |-> p, card_index |-> i,
     target_player_id |-> t]
CallCaboMessage(p) == [type |-> "call_cabo", player_id |-> p]
ViewOwnCardMessage(p, i) ==
    [type |-> "view_own_card", player_id |-> p, card_index |-> i]
ViewOpponentCardMessage(p, t, i) ==
    [type |-> "view_opponent_card", player_id |-> p, target_player_id |-> t,
     card_index |-> i]
SwapCardsMessage(p, i, t, j) ==
    [type |-> "swap_cards", player_id |-> p, own_index |-> i,
     target_player_id |-> t, target_index |-> j]
KingViewCardMessage(p, t, i) ==
    [type |-> "king_view_card", player_id |-> p, target_player_id |-> t,
     card_index |-> i]
KingSwapCardsMessage(p, i, t, j) ==
    [type |-> "king_swap_cards", player_id |-> p, own_index |-> i,
     target_player_id |-> t, target_index |-> j]
KingSkipSwapMessage(p) == [type |-> "king_skip_swap", player_id |-> p]

\* SystemMessage subclasses carry no field besides their type
SystemMessageTypes == {"stack_timeout", "special_action_timeout",
                       "turn_transition_timeout", "setup_timeout",
                       "next_turn", "end_game"}

\* What a client message may carry: player_id is the session id of a seated
\* player, a target id is any string
Senders == PlayerIds
Indices == (0 - 1)..MaxIndex
Targets == PlayerIds \cup {NoSuchPlayer}

(***************************************************************************)
(* Handler results: the dict a handler returns, with the game it leaves.   *)
(***************************************************************************)
Rejected(g) == [g |-> g, success |-> FALSE, events |-> <<>>, next_messages |-> <<>>]
Accepted(g, evs, nexts) ==
    [g |-> g, success |-> TRUE, events |-> evs, next_messages |-> nexts]

\* CaboGame.get_current_player
get_current_player(g) == g.players[g.state.current_player_index + 1]

\* CaboGame.get_player_by_id: the seat (1-based) of the player, 0 for None
get_player_by_id(g, id) ==
    IF \E i \in 1..Len(g.players) : g.players[i].player_id = id
    THEN CHOOSE i \in 1..Len(g.players) : g.players[i].player_id = id
    ELSE 0

\* 0 <= index < len(hand)
ValidIndex(i, hand) == 0 <= i /\ i < Len(hand)

\* list.pop() without the index: the last card goes
RemoveLast(hand, i) == SubSeq(hand, 1, Len(hand) - 1)

\* list.pop(index) on a hand (0-based index)
RemoveAt(hand, i) == SubSeq(hand, 1, i) \o SubSeq(hand, i + 2, Len(hand))

\* CaboGame.is_cabo_called
is_cabo_called(g) == g.state.cabo_caller # Nil

\* CaboGame._get_special_action_type
get_special_action_type(card) ==
    IF card.rank \in {7, 8} THEN "view_own"
    ELSE IF card.rank \in {9, 10} THEN "view_opponent"
    ELSE IF card.rank \in {11, 12} THEN "swap_opponent"
    ELSE IF card.rank = 13 THEN "king_effect"
    ELSE "none"

\* CaboGame._clear_stack_state
clear_stack_state(g) ==
    [g EXCEPT !.state.stack_caller = Nil,
              !.pending_timeouts =
                  IF g.state.stack_timer_id # Nil
                  THEN pop_timeout(@, g.state.stack_timer_id) ELSE @,
              !.state.stack_timer_id = Nil,
              !.state.phase = "playing"]

\* CaboGame._clear_special_action_state
clear_special_action_state(g) ==
    [g EXCEPT !.state.special_action_player = Nil,
              !.state.special_action_type = "None",
              !.pending_timeouts =
                  IF g.state.special_action_timer_id # Nil
                  THEN pop_timeout(@, g.state.special_action_timer_id) ELSE @,
              !.state.special_action_timer_id = Nil]

\* CaboGame._clear_king_state
clear_king_state(g) ==
    [g EXCEPT !.state.king_viewed_card = NoCard,
              !.state.king_viewed_player = Nil,
              !.state.king_viewed_index = Nil]

\* _transition_after_special_action without its stack branch: the turn
\* transition starts whether or not a stack was called
transition_after_special_action_ignoring_stack(g) ==
    [g EXCEPT !.state.phase = "turn_transition",
              !.state.turn_transition_timer_id = NewTimerId(g),
              !.pending_timeouts = schedule_timeout(g)]

\* CaboGame._transition_after_special_action (its callers drop what it returns)
transition_after_special_action(g) ==
    IF g.state.stack_caller # Nil
    THEN [g EXCEPT !.state.phase = "stack_called",
                   !.state.stack_timer_id = NewTimerId(g),
                   !.pending_timeouts = schedule_timeout(g)]
    ELSE [g EXCEPT !.state.phase = "turn_transition",
                   !.state.turn_transition_timer_id = NewTimerId(g),
                   !.pending_timeouts = schedule_timeout(g)]

\* The tail shared by _handle_play_drawn_card and _handle_replace_and_play:
\* the special effect of the card that was just played
play_effect(g, card, player_id, first_event) ==
    IF is_special(card)
    THEN LET g1 == [g EXCEPT !.state.special_action_player = player_id,
                             !.state.special_action_timer_id = NewTimerId(g),
                             !.pending_timeouts = schedule_timeout(g)]
         IN  IF card.rank = KING
             THEN Accepted([g1 EXCEPT !.state.phase = "king_view_phase"],
                           <<first_event, "game_phase_changed">>, <<>>)
             ELSE Accepted([g1 EXCEPT
                               !.state.phase = "waiting_for_special_action",
                               !.state.special_action_type =
                                   get_special_action_type(card)],
                           <<first_event, "game_phase_changed">>, <<>>)
    ELSE Accepted([g EXCEPT !.state.phase = "turn_transition",
                            !.state.turn_transition_timer_id = NewTimerId(g),
                            !.pending_timeouts = schedule_timeout(g)],
                  <<first_event, "game_phase_changed">>, <<>>)

\* CaboGame._handle_draw_card
handle_draw_card(g, message) ==
    IF g.state.phase # "playing" THEN Rejected(g)
    ELSE IF get_current_player(g).player_id # message.player_id THEN Rejected(g)
    ELSE IF g.state.drawn_card # NoCard THEN Rejected(g)
    ELSE IF g.deck = <<>> THEN Rejected(g)
    ELSE Accepted([g EXCEPT !.deck = DeckRest(g.deck),
                            !.state.drawn_card = DeckTop(g.deck)],
                  <<"card_drawn">>, <<>>)

\* CaboGame._handle_play_drawn_card
handle_play_drawn_card(g, message) ==
    IF g.state.drawn_card = NoCard THEN Rejected(g)
    ELSE IF get_current_player(g).player_id # message.player_id THEN Rejected(g)
    ELSE LET card == g.state.drawn_card
             g1 == [g EXCEPT !.state.played_card = card,
                             !.state.drawn_card = NoCard,
                             !.discard_pile = Append(@, card)]
         IN  play_effect(g1, card, message.player_id, "card_played")

\* CaboGame._handle_replace_and_play
handle_replace_and_play(g, message) ==
    IF g.state.drawn_card = NoCard THEN Rejected(g)
    ELSE IF get_current_player(g).player_id # message.player_id THEN Rejected(g)
    ELSE IF ~ValidIndex(message.hand_index, get_current_player(g).hand)
    THEN Rejected(g)
    ELSE LET seat == g.state.current_player_index + 1
             old_card == g.players[seat].hand[message.hand_index + 1]
             g1 == [g EXCEPT
                       !.players[seat].hand[message.hand_index + 1] =
                           g.state.drawn_card,
                       !.state.played_card = old_card,
                       !.state.drawn_card = NoCard,
                       !.discard_pile = Append(@, old_card)]
         IN  play_effect(g1, old_card, message.player_id,
                         "card_replaced_and_played")

\* CaboGame._handle_call_stack
handle_call_stack(g, message) ==
    IF g.state.played_card = NoCard THEN Rejected(g)
    ELSE IF g.state.phase = "stack_called" \/ g.state.stack_caller # Nil
    THEN Rejected(g)
    ELSE IF get_player_by_id(g, message.player_id) = 0 THEN Rejected(g)
    ELSE IF g.state.phase \in {"waiting_for_special_action", "king_view_phase",
                               "king_swap_phase"}
    THEN Accepted([g EXCEPT !.state.stack_caller = message.player_id],
                  <<"stack_called">>, <<>>)
    ELSE Accepted([g EXCEPT
                      !.state.phase = "stack_called",
                      !.state.stack_caller = message.player_id,
                      !.state.stack_timer_id = NewTimerId(g),
                      !.pending_timeouts =
                          pop_timeout(schedule_timeout(g),
                                      g.state.turn_transition_timer_id),
                      !.state.turn_transition_timer_id = Nil],
                  <<"stack_called">>, <<>>)

\* CaboGame._handle_execute_stack
handle_execute_stack(g, message) ==
    IF g.state.stack_caller # message.player_id THEN Rejected(g)
    ELSE IF g.state.phase # "stack_called" THEN Rejected(g)
    ELSE IF get_player_by_id(g, message.player_id) = 0 THEN Rejected(g)
    ELSE LET seat == get_player_by_id(g, message.player_id)
             hand == g.players[seat].hand
         IN
         IF ~ValidIndex(message.card_index, hand) THEN Rejected(g)
         ELSE LET stack_card == hand[message.card_index + 1]
                  played_card == g.state.played_card
                  g1 == clear_stack_state(g)
                  next_messages == <<"next_turn">>
              IN
              IF stack_card.rank = played_card.rank
              THEN IF message.target_player_id = Nil
                   THEN Accepted(
                            [g1 EXCEPT
                                !.players[seat].hand =
                                    RemoveAt(@, message.card_index),
                                !.discard_pile = Append(@, stack_card)],
                            <<"stack_success">>, next_messages)
                   ELSE LET target ==
                                get_player_by_id(g1, message.target_player_id)
                        IN  IF target = 0 THEN Rejected(g1)
                            ELSE LET g2 == [g1 EXCEPT
                                               !.players[seat].hand =
                                                   RemoveAt(@, message.card_index)]
                                 IN  Accepted(
                                         [g2 EXCEPT
                                             !.players[target].hand =
                                                 Append(@, stack_card)],
                                         <<"stack_success">>, next_messages)
              ELSE IF g1.deck # <<>>
                   THEN Accepted(
                            [g1 EXCEPT
                                !.deck = DeckRest(g1.deck),
                                !.players[seat].hand =
                                    Append(@, DeckTop(g1.deck))],
                            <<"stack_failed">>, next_messages)
                   ELSE Accepted(g1, <<"stack_failed">>, next_messages)

\* CaboGame._handle_stack_timeout
handle_stack_timeout(g) ==
    IF g.state.phase # "stack_called" THEN Rejected(g)
    ELSE LET seat == get_player_by_id(g, g.state.stack_caller)
             g1 == IF seat # 0 /\ g.deck # <<>>
                   THEN [g EXCEPT !.deck = DeckRest(g.deck),
                                  !.players[seat].hand =
                                      Append(@, DeckTop(g.deck))]
                   ELSE g
         IN  Accepted(clear_stack_state(g1), <<"stack_timeout">>,
                      <<"next_turn">>)

\* CaboGame._handle_call_cabo
handle_call_cabo(g, message) ==
    IF g.state.phase \notin {"playing", "waiting_for_special_action"}
    THEN Rejected(g)
    ELSE IF get_current_player(g).player_id # message.player_id THEN Rejected(g)
    ELSE IF g.state.drawn_card # NoCard THEN Rejected(g)
    ELSE IF is_cabo_called(g) THEN Rejected(g)
    ELSE Accepted([g EXCEPT
                      !.players[g.state.current_player_index + 1]
                          .has_called_cabo = TRUE,
                      !.state.cabo_caller = message.player_id,
                      !.state.final_round_started = TRUE],
                  <<"cabo_called">>, <<"next_turn">>)

\* CaboGame._handle_next_turn
handle_next_turn(g) ==
    LET next_index == (g.state.current_player_index + 1) % Len(g.players)
    IN  IF is_cabo_called(g)
           /\ next_index = get_player_by_id(g, g.state.cabo_caller) - 1
        THEN Accepted(g, <<>>, <<"end_game">>)
        ELSE Accepted([g EXCEPT !.state.current_player_index = next_index,
                                !.state.phase = "playing",
                                !.state.drawn_card = NoCard,
                                !.state.played_card = NoCard],
                      <<"turn_changed">>, <<>>)

\* Player.get_score
RECURSIVE get_score(_)
get_score(hand) ==
    IF hand = <<>> THEN 0 ELSE value(Head(hand)) + get_score(Tail(hand))

\* scores.sort(key=score)[0]: list.sort is stable, so among the players with
\* the lowest score the first in seat order comes first
lowest_score_seat(ps) ==
    CHOOSE i \in 1..Len(ps) :
        /\ \A j \in 1..Len(ps) : get_score(ps[i].hand) <= get_score(ps[j].hand)
        /\ \A j \in 1..(i - 1) : get_score(ps[j].hand) > get_score(ps[i].hand)

\* list.sort(key=score) is stable: an entry goes behind every entry already
\* in the list whose score is not greater
insert_by_score(scores, entry) ==
    LET before == SelectSeq(scores, LAMBDA e : e.score <= entry.score)
        behind == SelectSeq(scores, LAMBDA e : e.score > entry.score)
    IN  before \o <<entry>> \o behind

\* CaboGame._handle_end_game: scores, built in seat order and sorted by
\* score; it is the "final_scores" of the game_ended event
RECURSIVE sorted_scores(_, _)
sorted_scores(ps, scores) ==
    IF ps = <<>> THEN scores
    ELSE sorted_scores(
             Tail(ps),
             insert_by_score(scores, [player_id |-> Head(ps).player_id,
                                      score |-> get_score(Head(ps).hand)]))

final_scores(ps) == sorted_scores(ps, <<>>)

\* _handle_end_game with the winner taken from the other end of the list
handle_end_game_highest_wins(g) ==
    Accepted([g EXCEPT !.state.phase = "ended",
                       !.state.winner =
                           final_scores(g.players)[Len(g.players)].player_id],
             <<"game_ended">>, <<>>)

\* CaboGame._handle_end_game
handle_end_game(g) ==
    Accepted([g EXCEPT !.state.phase = "ended",
                       !.state.winner =
                           g.players[lowest_score_seat(g.players)].player_id],
             <<"game_ended">>, <<>>)

\* the swap both _handle_swap_cards and _handle_king_swap_cards perform
swap_hands_moving_views(g, seat, own_index, target, target_index) ==
    LET player_card == g.players[seat].hand[own_index + 1]
        target_card == g.players[target].hand[target_index + 1]
        own_slot == <<g.players[seat].player_id, own_index>>
        target_slot == <<g.players[target].player_id, target_index>>
        moved(viewed) ==
            (viewed \ {own_slot, target_slot})
                \cup (IF own_slot \in viewed THEN {target_slot} ELSE {})
                \cup (IF target_slot \in viewed THEN {own_slot} ELSE {})
        g1 == [g EXCEPT !.players[seat].hand[own_index + 1] = target_card]
    IN  [g1 EXCEPT !.players[target].hand[target_index + 1] = player_card,
                   !.state.temporarily_viewed_cards =
                       [v \in PlayerIds |-> moved(@[v])]]

\* the exchange of player.hand[own_index] and target_player.hand[target_index]
swap_hands(g, seat, own_index, target, target_index) ==
    LET player_card == g.players[seat].hand[own_index + 1]
        target_card == g.players[target].hand[target_index + 1]
        g1 == [g EXCEPT !.players[seat].hand[own_index + 1] = target_card]
    IN  [g1 EXCEPT !.players[target].hand[target_index + 1] = player_card]

\* temporarily_viewed_cards[viewer].add((owner, index))
add_viewed(g, viewer, owner, index) ==
    [g EXCEPT !.state.temporarily_viewed_cards[viewer] =
                  @ \cup {<<owner, index>>}]

\* CaboGame._handle_view_own_card
handle_view_own_card(g, message) ==
    IF g.state.special_action_player # message.player_id THEN Rejected(g)
    ELSE IF g.state.phase # "waiting_for_special_action" THEN Rejected(g)
    ELSE IF get_player_by_id(g, message.player_id) = 0 THEN Rejected(g)
    ELSE IF ~ValidIndex(message.card_index,
                        g.players[get_player_by_id(g, message.player_id)].hand)
    THEN Rejected(g)
    ELSE Accepted(
             transition_after_special_action(
                 clear_special_action_state(
                     add_viewed(g, message.player_id, message.player_id,
                                message.card_index))),
             <<"card_viewed">>, <<>>)

\* CaboGame._handle_view_opponent_card
handle_view_opponent_card(g, message) ==
    IF g.state.special_action_player # message.player_id THEN Rejected(g)
    ELSE IF g.state.special_action_type # "view_opponent" THEN Rejected(g)
    ELSE IF g.state.phase # "waiting_for_special_action" THEN Rejected(g)
    ELSE IF message.target_player_id = message.player_id THEN Rejected(g)
    ELSE IF get_player_by_id(g, message.target_player_id) = 0 THEN Rejected(g)
    ELSE IF ~ValidIndex(message.card_index,
                        g.players[get_player_by_id(g, message.target_player_id)].hand)
    THEN Rejected(g)
    ELSE Accepted(
             transition_after_special_action(
                 clear_special_action_state(
                     add_viewed(g, message.player_id, message.target_player_id,
                                message.card_index))),
             <<"opponent_card_viewed">>, <<>>)

\* CaboGame._handle_swap_cards
handle_swap_cards(g, message) ==
    IF g.state.special_action_player # message.player_id THEN Rejected(g)
    ELSE IF g.state.phase # "waiting_for_special_action" THEN Rejected(g)
    ELSE IF message.target_player_id = message.player_id THEN Rejected(g)
    ELSE LET seat == get_player_by_id(g, message.player_id)
             target == get_player_by_id(g, message.target_player_id)
         IN  IF seat = 0 \/ target = 0 THEN Rejected(g)
             ELSE IF ~ValidIndex(message.own_index, g.players[seat].hand)
             THEN Rejected(g)
             ELSE IF ~ValidIndex(message.target_index, g.players[target].hand)
             THEN Rejected(g)
             ELSE Accepted(
                      transition_after_special_action(
                          clear_special_action_state(
                              swap_hands(g, seat, message.own_index, target,
                                         message.target_index))),
                      <<"cards_swapped">>, <<>>)

\* CaboGame._handle_king_view_card
handle_king_view_card(g, message) ==
    IF g.state.special_action_player # message.player_id THEN Rejected(g)
    ELSE IF g.state.phase # "king_view_phase" THEN Rejected(g)
    ELSE LET target == get_player_by_id(g, message.target_player_id)
         IN  IF target = 0 THEN Rejected(g)
             ELSE IF ~ValidIndex(message.card_index, g.players[target].hand)
             THEN Rejected(g)
             ELSE LET g1 == [g EXCEPT
                                !.state.king_viewed_card =
                                    g.players[target].hand[message.card_index + 1],
                                !.state.king_viewed_player =
                                    message.target_player_id,
                                !.state.king_viewed_index = message.card_index]
                      g2 == add_viewed(g1, message.player_id,
                                       message.target_player_id,
                                       message.card_index)
                  IN  Accepted([g2 EXCEPT !.state.phase = "king_swap_phase"],
                               <<"king_card_viewed">>, <<>>)

\* CaboGame._handle_king_swap_cards
handle_king_swap_cards(g, message) ==
    IF g.state.special_action_player # message.player_id THEN Rejected(g)
    ELSE IF g.state.phase # "king_swap_phase" THEN Rejected(g)
    ELSE LET seat == get_player_by_id(g, message.player_id)
             target == get_player_by_id(g, message.target_player_id)
         IN  IF seat = 0 \/ target = 0 THEN Rejected(g)
             ELSE IF ~ValidIndex(message.own_index, g.players[seat].hand)
             THEN Rejected(g)
             ELSE IF ~ValidIndex(message.target_index, g.players[target].hand)
             THEN Rejected(g)
             ELSE Accepted(
                      transition_after_special_action(
                          clear_special_action_state(
                              clear_king_state(
                                  swap_hands(g, seat, message.own_index, target,
                                             message.target_index)))),
                      <<"king_cards_swapped">>, <<>>)

\* CaboGame._handle_king_skip_swap
handle_king_skip_swap(g, message) ==
    IF g.state.special_action_player # message.player_id THEN Rejected(g)
    ELSE IF g.state.phase # "king_swap_phase" THEN Rejected(g)
    ELSE Accepted(
             transition_after_special_action(
                 clear_special_action_state(clear_king_state(g))),
             <<"king_swap_skipped">>, <<>>)

\* CaboGame._handle_special_action_timeout
handle_special_action_timeout(g) ==
    Accepted(
        transition_after_special_action(
            clear_king_state(clear_special_action_state(g))),
        <<"special_action_timeout">>, <<>>)

\* CaboGame._handle_setup_timeout; start is what random.randint returns
handle_setup_timeout(g, start) ==
    Accepted([g EXCEPT
                 !.pending_timeouts =
                     IF g.state.setup_timer_id # Nil
                     THEN pop_timeout(@, g.state.setup_timer_id) ELSE @,
                 !.state.setup_timer_id = Nil,
                 !.state.temporarily_viewed_cards = [p \in PlayerIds |-> {}],
                 !.state.current_player_index = start,
                 !.state.phase = "playing"],
             <<"game_phase_changed">>, <<>>)

\* CaboGame._handle_turn_transition_timeout
handle_turn_transition_timeout(g) ==
    Accepted([g EXCEPT
                 !.pending_timeouts =
                     IF g.state.turn_transition_timer_id # Nil
                     THEN pop_timeout(@, g.state.turn_transition_timer_id)
                     ELSE @,
                 !.state.turn_transition_timer_id = Nil,
                 !.state.temporarily_viewed_cards = [p \in PlayerIds |-> {}]],
             <<>>, <<"next_turn">>)

\* CaboGame._check_timeouts, for the set of timers whose expiry time has
\* passed: each is deleted, and one a state field still names puts its
\* timeout message on the queue and clears the field.  [g, put]
RECURSIVE check_timeouts(_, _, _, _)
check_timeouts(g, ids, expired, put) ==
    IF ids = <<>> THEN [g |-> g, put |-> put]
    ELSE LET timeout_id == Head(ids)
             g1 == [g EXCEPT !.pending_timeouts = pop_timeout(@, timeout_id)]
         IN
         IF timeout_id \notin expired
         THEN check_timeouts(g, Tail(ids), expired, put)
         ELSE IF timeout_id = g.state.stack_timer_id
         THEN check_timeouts([g1 EXCEPT !.state.stack_timer_id = Nil],
                             Tail(ids), expired, Append(put, "stack_timeout"))
         ELSE IF timeout_id = g.state.special_action_timer_id
         THEN check_timeouts([g1 EXCEPT !.state.special_action_timer_id = Nil],
                             Tail(ids), expired,
                             Append(put, "special_action_timeout"))
         ELSE IF timeout_id = g.state.turn_transition_timer_id
         THEN check_timeouts([g1 EXCEPT !.state.turn_transition_timer_id = Nil],
                             Tail(ids), expired,
                             Append(put, "turn_transition_timeout"))
         ELSE IF timeout_id = g.state.setup_timer_id
         THEN check_timeouts([g1 EXCEPT !.state.setup_timer_id = Nil],
                             Tail(ids), expired, Append(put, "setup_timeout"))
         ELSE check_timeouts(g1, Tail(ids), expired, put)

(***************************************************************************)
(* The Engine as a state machine.                                          *)
(*                                                                         *)
(* message_queue holds, in order, the messages handed to add_message - a   *)
(* player's intent ("added") or a system message ("system") - and the      *)
(* system messages the Engine put itself (their type).  What an added      *)
(* message carries does not depend on the game, so it is drawn when the    *)
(* message is taken from the queue.                                        *)
(*                                                                         *)
(* Spec is the Engine as the room loop drives it: the messages added are   *)
(* the player intents GameOrchestrator._deserialize_message builds.        *)
(* SpecEngine is the Engine behind its own interface: add_message takes    *)
(* any GameMessage, a system message too, as the unit tests do.            *)
(***************************************************************************)
NoResult == [type |-> "none", success |-> FALSE,
             events |-> <<>>, next_messages |-> <<>>]

\* the sessions connected to the room, one per player
Sessions == PlayerIds

\* connection ids of one session: 0 is the connection of its first websocket,
\* r > 0 the connection register_connection makes for its r-th later one
ConnectionIds == 0..MaxRegistrations
Registrations == 1..MaxRegistrations

\* the JSON text null where a card is expected
JsonNull == [rank |-> Nil, suit |-> "null"]

\* the room's keys in Redis when no game was ever saved for it:
\* game:{room}:meta is not there
NoSnapshot == [exists |-> FALSE]

\* what the keys of such a room read as: meta, players, deck, discard, turn
\* and viewed are the hashes, lists and sets save_game writes, all empty
EmptyKeys ==
    [exists |-> FALSE,
     meta |-> [phase |-> "setup", current_player_index |-> 0,
               final_round_started |-> FALSE, winner |-> Nil,
               pending_timeouts |-> <<>>],
     players |-> [p \in PlayerIds |-> [hand |-> <<>>,
                                       has_called_cabo |-> FALSE]],
     deck |-> <<>>,
     discard |-> <<>>,
     turn |-> [drawn_card |-> JsonNull, played_card |-> JsonNull,
               stack_caller |-> Nil, stack_timer_id |-> Nil,
               special_action_player |-> Nil,
               special_action_type |-> "None",
               special_action_timer_id |-> Nil,
               king_viewed_card |-> JsonNull, king_viewed_player |-> Nil,
               king_viewed_index |-> Nil, turn_transition_timer_id |-> Nil,
               setup_timer_id |-> Nil, cabo_caller |-> Nil],
     viewed |-> [p \in PlayerIds |-> {}]]

\* the hashes, lists and sets a command finds under the room's keys
Keys(stored) == IF stored.exists THEN stored ELSE EmptyKeys

\* the coroutines that call load_game: the room's message processor and a
\* websocket endpoint (_create_player_checkpoint)
Loaders == {"processor", "endpoint"}

\* the keys load_game reads, one await each, in this order
LoadKeys == <<"meta", "players", "deck", "discard", "turn", "viewed">>

\* a coroutine that is not inside load_game: read holds the keys read so far,
\* found says whether the last load_game returned a game
IdleLoad == [pc |-> 0, read |-> NoSnapshot, found |-> FALSE]

\* The room's queue before any intent was pushed:
\*   queue     the Redis list queue:game:{room}:messages, leftmost first
\*   messages  the list the processor's round has popped so far
\*   pushed    intents pushed so far; the n-th push carries timestamp n
\*   handled   the timestamps of the intents the Engine handled, in the
\*             order it handled them, each with the handler's success
NoInbound == [queue |-> <<>>, messages |-> <<>>, pushed |-> 0,
              handled |-> <<>>]

\* no synchronize_client has run: k is the sequencer's cursor of the session
\* when it disconnected, messages the seq_nums sent between checkpoint and ready
NotSynced == [k |-> 0, checkpoint |-> Nil, messages |-> <<>>, ready |-> Nil]

\* a coroutine that is not inside send_sequenced_message
IdleTask == [pc |-> "idle", seq |-> 0, exclude |-> NoSuchPlayer,
             todo |-> <<>>, after |-> "idle"]

(***************************************************************************)
(* The relational store of rooms.                                          *)
(*                                                                         *)
(* user_id, room_id and host_session_id are UUID columns read as           *)
(* uuid.UUID; the routers hand RoomManager str(user_id).  An id is a       *)
(* record of its Python type and its value, so that == between the two     *)
(* is what Python computes.                                                *)
(***************************************************************************)
UUID(n) == [type |-> "UUID", value |-> n]
str(id) == [type |-> "str", value |-> id.value]

\* the sessions: the players of the game and the visitors
RoomUsers == 1..(NumPlayers + MaxVisitors)
\* room 1 is the room of the game
RoomIds == 1..(1 + MaxNewRooms)
Requests == 1..MaxRequests

\* room_config['max_players'] = 6
MAX_PLAYERS == 6

NoRoom == [exists |-> FALSE, host_session_id |-> UUID(0), phase |-> "none"]

\* what start_game left: the room of the game, IN_GAME, its members the
\* players in the order they joined, the first of them the host
RoomOfGame ==
    [game_rooms |-> [r \in RoomIds |->
                        IF r = 1
                        THEN [exists |-> TRUE, host_session_id |-> UUID(1),
                              phase |-> "IN_GAME"]
                        ELSE NoRoom],
     user_to_room |-> [i \in 1..NumPlayers |->
                          [user_id |-> UUID(i), room_id |-> 1]]]

\* a request that has not arrived
NoRequest == [op |-> "none", pc |-> "none", session_id |-> str(UUID(0)),
              room_id |-> 0, membership_room_id |-> 0,
              host_session_id |-> UUID(0),
              user_memberships |-> <<>>, raised |-> "none"]

\* the room of the game: its sequencer, connections and store before any
\* event was sent, with every player connected
RoomOpened ==
    /\ database = RoomOfGame
    /\ requests = [c \in Requests |-> NoRequest]
    /\ room_sequences = 0
    /\ message_buffers = <<>>
    /\ presence = Sessions
    /\ active = Sessions
    /\ tasks = [t \in {"broadcaster", "endpoint"} |-> IdleTask]
    /\ received = [s \in Sessions |-> <<>>]
    /\ published = 0
    /\ client_sequences = [s \in Sessions |-> 0]
    /\ last_ack_seq = [s \in Sessions |-> 0]
    /\ cursor = [s \in Sessions |-> 0]
    /\ player_checkpoints = [s \in Sessions |-> 0]
    /\ outbox = [s \in Sessions |-> <<>>]
    /\ sent_to = [s \in Sessions |-> {}]
    /\ synced = NotSynced
    /\ message_data = [q \in 1..MaxSeq |-> 0]
    /\ drawer = NoSuchPlayer
    /\ connections = [c \in ConnectionIds |->
                          IF c = 0 THEN "active" ELSE "absent"]
    /\ session_to_connection = 0
    /\ websockets = {0}
    /\ closed = {}
    /\ finalised = {}
    /\ grace = [key |-> Nil, cleanups |-> [c \in ConnectionIds |-> "none"]]
    /\ registrations = [r \in Registrations |->
                            [pc |-> "new", old |-> Nil]]
    /\ card_visibility = FALSE
    /\ processor = [pc |-> "new", saves |-> 0, raised |-> FALSE,
                     tasks |-> 0, cleanup |-> FALSE]
    /\ loads = [l \in Loaders |-> IdleLoad]
    /\ inbound = NoInbound

\* CaboGame.__init__ for one shuffle of the deck
NewGame(k) ==
    LET d == deal(shuffle(build_deck, k), [i \in 1..NumPlayers |-> <<>>], 0)
    IN  [deck |-> d.deck,
         discard_pile |-> <<>>,
         players |-> [i \in 1..NumPlayers |->
                         [player_id |-> i, hand |-> d.hands[i],
                          has_called_cabo |-> FALSE]],
         state |-> [GameState EXCEPT
                       !.temporarily_viewed_cards =
                           [p \in PlayerIds |-> {<<p, 0>>, <<p, 1>>}],
                       !.setup_timer_id = 1],
         pending_timeouts |-> <<1>>]

\* the variables of the Engine hold game g and nothing is queued
Holding(g) ==
    /\ deck = g.deck
    /\ discard_pile = g.discard_pile
    /\ players = g.players
    /\ state = g.state
    /\ pending_timeouts = g.pending_timeouts
    /\ message_queue = <<>>
    /\ pc = "idle"
    /\ events = <<>>
    /\ result = NoResult
    /\ added = 0
    /\ injected = 0

\* CaboGame.__init__ in a room whose players are all connected
Constructed(k) ==
        /\ Holding(NewGame(k))
        /\ history = [turn_draws |-> 0, stack_calls |-> 0, turn_ends |-> 0,
                      event_cards |-> {},
                      final_turns |-> <<>>,
                      final_draws |-> [p \in PlayerIds |-> 0]]
        /\ RoomOpened

\* a new game in a room for which Redis holds no snapshot
Init ==
    \E k \in 1..NumShuffles :
        /\ Constructed(k)
        /\ snapshot = NoSnapshot
        /\ written = {NoSnapshot}

\* CaboGame.add_message
AddMessage ==
    /\ pc = "idle"
    /\ Len(message_queue) < MaxQueue
    /\ added < (IF injected = 0 THEN MaxMessages ELSE MaxEngineMessages)
    /\ message_queue' = Append(message_queue, "added")
    /\ added' = added + 1
    /\ UNCHANGED <<gamevars, pc, events, result, injected, history, netvars, connvars, storevars,
                   roomvars>>

\* CaboGame.add_message with a SystemMessage
AddSystemMessage ==
    /\ pc = "idle"
    /\ Len(message_queue) < MaxQueue
    /\ added < MaxEngineMessages
    /\ injected < MaxSystemAdds
    /\ message_queue' = Append(message_queue, "system")
    /\ added' = added + 1
    /\ injected' = injected + 1
    /\ UNCHANGED <<gamevars, pc, events, result, history, netvars, connvars, storevars,
                   roomvars>>

\* CaboGame.process_messages up to its loop: events = [] and _check_timeouts,
\* for any set of pending timers whose expiry time has passed
ProcessMessages ==
    /\ pc = "idle"
    /\ \E expired \in SUBSET {pending_timeouts[i] : i \in 1..Len(pending_timeouts)} :
           LET c == check_timeouts(Game, pending_timeouts, expired, <<>>)
           IN  /\ state' = c.g.state
               /\ pending_timeouts' = c.g.pending_timeouts
               /\ message_queue' = message_queue \o c.put
    /\ pc' = "processing"
    /\ events' = <<>>
    /\ result' = NoResult
    /\ UNCHANGED <<deck, discard_pile, players, added, injected, history, netvars, connvars, storevars,
                   roomvars>>

\* The hand slots whose card a handler names in the data of its GameEvent
\* ("card", "player_card", "target_card", "given_card", "attempted_card"),
\* by where that card lies in the game r.g the handler leaves
hand_cards_in_event(message, r) ==
    IF ~r.success THEN {}
    ELSE IF message.type = "view_own_card"
    THEN {<<message.player_id, message.card_index>>}
    ELSE IF message.type \in {"view_opponent_card", "king_view_card"}
    THEN {<<message.target_player_id, message.card_index>>}
    ELSE IF message.type \in {"swap_cards", "king_swap_cards"}
    THEN {<<message.player_id, message.own_index>>,
          <<message.target_player_id, message.target_index>>}
    ELSE IF message.type = "execute_stack"
    THEN IF r.events = <<"stack_failed">>
         THEN {<<message.player_id, message.card_index>>}
         ELSE IF message.target_player_id # Nil
         THEN LET target == get_player_by_id(r.g, message.target_player_id)
              IN  {<<message.target_player_id,
                     Len(r.g.players[target].hand) - 1>>}
         ELSE {}
    ELSE {}

\* GameOrchestrator._broadcast_game_event: the hand slots named in the data
\* session v is sent for the event of message.  Only card_drawn, which names
\* no hand card, is personalized; every other event goes to the whole room
\* as the handler built it
event_cards_sent(v, message, r) == hand_cards_in_event(message, r)

\* History of the run, after message was handled with result r:
\*   event_cards  the hand slots named in the event every session was sent
\*   turn_draws   DRAW_CARDs accepted since the turn last changed
\*   stack_calls  CALL_STACKs accepted since a card was last played
\*   turn_ends    plays and CALL_CABOs accepted since a NEXT_TURN was handled
\*   final_turns  the players the turn passed to since CALL_CABO was accepted
\*   final_draws  DRAW_CARDs accepted from each player since then
Remember(message, r) ==
    LET ev == {r.events[i] : i \in 1..Len(r.events)}
        ok == r.success
    IN  [event_cards |->
             UNION {event_cards_sent(v, message, r) : v \in PlayerIds},
         turn_draws |->
             IF ok /\ "turn_changed" \in ev THEN 0
             ELSE IF ok /\ message.type = "draw_card"
             THEN history.turn_draws + 1
             ELSE history.turn_draws,
         stack_calls |->
             IF ok /\ message.type \in {"play_drawn_card", "replace_and_play"}
             THEN 0
             ELSE IF ok /\ message.type = "call_stack"
             THEN history.stack_calls + 1
             ELSE history.stack_calls,
         turn_ends |->
             IF ok /\ message.type = "next_turn" THEN 0
             ELSE IF ok /\ message.type \in {"play_drawn_card",
                                              "replace_and_play", "call_cabo"}
             THEN history.turn_ends + 1
             ELSE history.turn_ends,
         final_turns |->
             IF ok /\ "turn_changed" \in ev /\ is_cabo_called(r.g)
             THEN Append(history.final_turns, get_current_player(r.g).player_id)
             ELSE history.final_turns,
         final_draws |->
             IF ok /\ message.type = "draw_card" /\ is_cabo_called(r.g)
             THEN [history.final_draws EXCEPT ![message.player_id] = @ + 1]
             ELSE history.final_draws]

\* One turn of the loop of process_messages: message is taken from the queue
\* and r is what its handler returned (h is that value, computed once)
Handle(message, r) ==
    \E h \in {r} :
        /\ deck' = h.g.deck
        /\ discard_pile' = h.g.discard_pile
        /\ players' = h.g.players
        /\ state' = h.g.state
        /\ pending_timeouts' = h.g.pending_timeouts
        /\ message_queue' =
               Tail(message_queue) \o (IF h.success THEN h.next_messages ELSE <<>>)
        /\ events' = IF h.success THEN events \o h.events ELSE events
        /\ result' = [type |-> message.type, success |-> h.success,
                      events |-> IF h.success THEN h.events ELSE <<>>,
                      next_messages |->
                          IF h.success THEN h.next_messages ELSE <<>>]
        /\ history' = Remember(message, h)
        /\ UNCHANGED <<pc, added, injected, netvars, connvars, storevars, roomvars>>

\* a message is waiting and a timer id is free for the handler to use
Taking(types) ==
    /\ pc = "processing"
    /\ message_queue # <<>>
    /\ Head(message_queue) \in types
    /\ NewTimerId(Game) <= MaxTimers

DrawCard ==
    /\ Taking({"added"})
    /\ \E p \in Senders :
           Handle(DrawCardMessage(p), handle_draw_card(Game, DrawCardMessage(p)))

PlayDrawnCard ==
    /\ Taking({"added"})
    /\ \E p \in Senders :
           Handle(PlayDrawnCardMessage(p),
                  handle_play_drawn_card(Game, PlayDrawnCardMessage(p)))

ReplaceAndPlay ==
    /\ Taking({"added"})
    /\ \E p \in Senders, i \in Indices :
           Handle(ReplaceAndPlayMessage(p, i),
                  handle_replace_and_play(Game, ReplaceAndPlayMessage(p, i)))

CallStack ==
    /\ Taking({"added"})
    /\ \E p \in Senders :
           Handle(CallStackMessage(p),
                  handle_call_stack(Game, CallStackMessage(p)))

ExecuteStack ==
    /\ Taking({"added"})
    /\ \E p \in Senders, i \in Indices, t \in Targets \cup {Nil} :
           Handle(ExecuteStackMessage(p, i, t),
                  handle_execute_stack(Game, ExecuteStackMessage(p, i, t)))

CallCabo ==
    /\ Taking({"added"})
    /\ \E p \in Senders :
           Handle(CallCaboMessage(p), handle_call_cabo(Game, CallCaboMessage(p)))

ViewOwnCard ==
    /\ Taking({"added"})
    /\ \E p \in Senders, i \in Indices :
           Handle(ViewOwnCardMessage(p, i),
                  handle_view_own_card(Game, ViewOwnCardMessage(p, i)))

ViewOpponentCard ==
    /\ Taking({"added"})
    /\ \E p \in Senders, t \in Targets, i \in Indices :
           Handle(ViewOpponentCardMessage(p, t, i),
                  handle_view_opponent_card(Game, ViewOpponentCardMessage(p, t, i)))

SwapCards ==
    /\ Taking({"added"})
    /\ \E p \in Senders, i \in Indices, t \in Targets, j \in Indices :
           Handle(SwapCardsMessage(p, i, t, j),
                  handle_swap_cards(Game, SwapCardsMessage(p, i, t, j)))

KingViewCard ==
    /\ Taking({"added"})
    /\ \E p \in Senders, t \in Targets, i \in Indices :
           Handle(KingViewCardMessage(p, t, i),
                  handle_king_view_card(Game, KingViewCardMessage(p, t, i)))

KingSwapCards ==
    /\ Taking({"added"})
    /\ \E p \in Senders, i \in Indices, t \in Targets, j \in Indices :
           Handle(KingSwapCardsMessage(p, i, t, j),
                  handle_king_swap_cards(Game, KingSwapCardsMessage(p, i, t, j)))

KingSkipSwap ==
    /\ Taking({"added"})
    /\ \E p \in Senders :
           Handle(KingSkipSwapMessage(p),
                  handle_king_skip_swap(Game, KingSkipSwapMessage(p)))

StackTimeout ==
    /\ Taking({"system", "stack_timeout"})
    /\ Handle([type |-> "stack_timeout"], handle_stack_timeout(Game))

SpecialActionTimeout ==
    /\ Taking({"system", "special_action_timeout"})
    /\ Handle([type |-> "special_action_timeout"],
              handle_special_action_timeout(Game))

TurnTransitionTimeout ==
    /\ Taking({"system", "turn_transition_timeout"})
    /\ Handle([type |-> "turn_transition_timeout"],
              handle_turn_transition_timeout(Game))

SetupTimeout ==
    /\ Taking({"system", "setup_timeout"})
    /\ \E start \in 0..(NumPlayers - 1) :
           Handle([type |-> "setup_timeout"], handle_setup_timeout(Game, start))

NextTurn ==
    /\ Taking({"system", "next_turn"})
    /\ Handle([type |-> "next_turn"], handle_next_turn(Game))

EndGame ==
    /\ Taking({"system", "end_game"})
    /\ Handle([type |-> "end_game"], handle_end_game(Game))

\* process_messages returns once the queue is empty
ProcessMessagesReturn ==
    /\ pc = "processing"
    /\ message_queue = <<>>
    /\ pc' = "idle"
    /\ events' = <<>>
    /\ result' = NoResult
    /\ UNCHANGED <<gamevars, message_queue, added, injected, history, netvars, connvars, storevars,
                   roomvars>>

Next ==
    \/ AddMessage
    \/ ProcessMessages
    \/ DrawCard
    \/ PlayDrawnCard
    \/ ReplaceAndPlay
    \/ CallStack
    \/ ExecuteStack
    \/ CallCabo
    \/ ViewOwnCard
    \/ ViewOpponentCard
    \/ SwapCards
    \/ KingViewCard
    \/ KingSwapCards
    \/ KingSkipSwap
    \/ StackTimeout
    \/ SpecialActionTimeout
    \/ TurnTransitionTimeout
    \/ SetupTimeout
    \/ NextTurn
    \/ EndGame
    \/ ProcessMessagesReturn

Spec == Init /\ [][Next]_vars

NextEngine ==
    \/ Next
    \/ AddSystemMessage

SpecEngine == Init /\ [][NextEngine]_vars

(***************************************************************************)
(* The Engine late in a game.                                              *)
(*                                                                         *)
(* Every card a player draws leaves the deck for good, so a game that goes *)
(* on long enough runs the deck down.  SpecLateGame starts where the room  *)
(* loop has taken a new game through setup and a number of turns in which  *)
(* the current player drew a card and played it, nobody called STACK and   *)
(* every timer ran out; the last of these plays has just been made.  The   *)
(* players then only draw, call STACK and execute it.                      *)
(***************************************************************************)
\* the handler process_messages calls for a message the Engine put itself
handle_put(g, type) ==
    IF type = "stack_timeout" THEN handle_stack_timeout(g)
    ELSE IF type = "special_action_timeout" THEN handle_special_action_timeout(g)
    ELSE IF type = "turn_transition_timeout"
    THEN handle_turn_transition_timeout(g)
    ELSE IF type = "next_turn" THEN handle_next_turn(g)
    ELSE handle_end_game(g)

\* the loop of process_messages over a queue of such messages
RECURSIVE run_queue(_, _)
run_queue(g, queue) ==
    IF queue = <<>> THEN g
    ELSE LET r == handle_put(g, Head(queue))
         IN  run_queue(r.g, Tail(queue) \o r.next_messages)

\* process_messages called, with nothing added, until no timer is pending:
\* each call finds every pending timer run out
RECURSIVE timers_run_out(_)
timers_run_out(g) ==
    IF g.pending_timeouts = <<>> THEN g
    ELSE LET all == {g.pending_timeouts[i] : i \in 1..Len(g.pending_timeouts)}
             c == check_timeouts(g, g.pending_timeouts, all, <<>>)
         IN  timers_run_out(run_queue(c.g, c.put))

\* DRAW_CARD, then PLAY_DRAWN_CARD, from the current player
turn_played(g) ==
    LET p == get_current_player(g).player_id
        drawn == handle_draw_card(g, DrawCardMessage(p)).g
    IN  handle_play_drawn_card(drawn, PlayDrawnCardMessage(p)).g

RECURSIVE turns_played(_, _)
turns_played(g, n) ==
    IF n = 0 THEN g
    ELSE turns_played(timers_run_out(turn_played(g)), n - 1)

\* the game of shuffle k in which setup ended with seat start to play and
\* the draw that leaves n cards in the deck has just been played
LateGame(k, start, n) ==
    LET g == NewGame(k)
        c == check_timeouts(g, g.pending_timeouts, {g.state.setup_timer_id}, <<>>)
        playing == handle_setup_timeout(c.g, start).g
    IN  turn_played(turns_played(playing, Len(playing.deck) - n - 1))

InitLateGame ==
    \E k \in 1..NumShuffles, start \in 0..(NumPlayers - 1), n \in 0..MaxLeft :
        /\ Holding(LateGame(k, start, n))
        /\ history = [turn_draws |-> 1, stack_calls |-> 0, turn_ends |-> 1,
                      event_cards |-> {},
                      final_turns |-> <<>>,
                      final_draws |-> [p \in PlayerIds |-> 0]]
        /\ RoomOpened
        /\ snapshot = NoSnapshot
        /\ written = {NoSnapshot}

NextLateGame ==
    \/ AddMessage
    \/ ProcessMessages
    \/ DrawCard
    \/ CallStack
    \/ ExecuteStack
    \/ StackTimeout
    \/ SpecialActionTimeout
    \/ TurnTransitionTimeout
    \/ NextTurn
    \/ ProcessMessagesReturn

SpecLateGame == InitLateGame /\ [][NextLateGame]_vars

(***************************************************************************)
(* Sequenced broadcast to a room.                                          *)
(*                                                                         *)
(* Two coroutines send to the room: the room's event broadcaster           *)
(* (GameOrchestrator.broadcast_game_events) and the websocket endpoint of  *)
(* one session, which disconnects and connects again.  The event loop may  *)
(* switch between them at every await, so one action is the code between   *)
(* two awaits.                                                             *)
(***************************************************************************)
enginevars == <<gamevars, message_queue, pc, events, result, added, injected,
                history>>

\* the session whose websocket endpoint is modelled
EndpointSession == NumPlayers

\* MessageSequencer.get_next_sequence
get_next_sequence == room_sequences + 1

\* the sessions of a set, as the list a loop walks through
SessionList(set) ==
    SelectSeq([i \in 1..NumPlayers |-> i], LAMBDA s : s \in set)

\* ConnectionManager.send_to_session: the message goes out on the session's
\* websocket if its connection is active, and is then added to the outbox
send_to_session(s, seq_num) ==
    /\ sent_to' = [sent_to EXCEPT ![s] = @ \cup {seq_num}]
    /\ IF s \in active
       THEN /\ received' = [received EXCEPT ![s] = Append(@, seq_num)]
            /\ outbox' = [outbox EXCEPT ![s] = Append(@, seq_num)]
       ELSE UNCHANGED <<received, outbox>>

\* ConnectionManager.send_sequenced_message up to its await:
\* MessageSequencer.add_message numbers the message and buffers it
SendSequenced(t, exclude_session, after) ==
    /\ room_sequences < MaxSeq
    /\ room_sequences' = get_next_sequence
    /\ message_buffers' = Append(message_buffers, get_next_sequence)
    /\ tasks' = [tasks EXCEPT ![t] = [pc |-> "sessions",
                                      seq |-> get_next_sequence,
                                      exclude |-> exclude_session,
                                      todo |-> <<>>, after |-> after]]

\* GameOrchestrator._broadcast_game_event for an event other than card_drawn
BroadcastGameEvent ==
    /\ tasks["broadcaster"].pc = "idle"
    /\ published < MaxEvents
    /\ active # {}
    /\ published' = published + 1
    /\ SendSequenced("broadcaster", NoSuchPlayer, "idle")
    /\ drawer' = NoSuchPlayer
    /\ UNCHANGED <<presence, active, received, outbox, sent_to, syncvars,
                   message_data, enginevars, connvars, storevars, roomvars>>

\* one turn of the card_drawn loop over the sessions todo, for the nth game
\* event, drawn by player_id: the session that drew is given the card and
\* the others "hidden"; sequencer.add_message, then send_to_session up to
\* its await
SendPersonalized(todo, player_id, n) ==
    /\ room_sequences < MaxSeq
    /\ room_sequences' = get_next_sequence
    /\ message_buffers' = Append(message_buffers, get_next_sequence)
    /\ message_data' = [message_data EXCEPT ![get_next_sequence] =
                            IF Head(todo) = player_id THEN n ELSE 0]
    /\ send_to_session(Head(todo), get_next_sequence)
    /\ tasks' = [tasks EXCEPT !["broadcaster"] =
                     [IdleTask EXCEPT !.pc = "card_drawn",
                                      !.seq = get_next_sequence,
                                      !.todo = Tail(todo)]]

\* GameOrchestrator._broadcast_game_event for card_drawn: get_room_sessions
\* and the first turn of the loop
BroadcastCardDrawn ==
    /\ tasks["broadcaster"].pc = "idle"
    /\ published < MaxEvents
    /\ active # {}
    /\ published' = published + 1
    /\ \E player_id \in Sessions :
           /\ drawer' = player_id
           /\ SendPersonalized(SessionList(active), player_id, published + 1)
    /\ UNCHANGED <<presence, active, syncvars, enginevars, connvars, storevars,
                   roomvars>>

\* send_to_session has returned: the next turn of the card_drawn loop
NextPersonalized ==
    /\ tasks["broadcaster"].pc = "card_drawn"
    /\ tasks["broadcaster"].todo # <<>>
    /\ SendPersonalized(tasks["broadcaster"].todo, drawer, published)
    /\ UNCHANGED <<presence, active, published, syncvars, drawer, enginevars,
                   connvars, storevars, roomvars>>

\* the card_drawn loop has ended
PersonalizedReturn ==
    /\ tasks["broadcaster"].pc = "card_drawn"
    /\ tasks["broadcaster"].todo = <<>>
    /\ tasks' = [tasks EXCEPT !["broadcaster"] = IdleTask]
    /\ UNCHANGED <<room_sequences, message_buffers, presence, active,
                   received, published, outbox, sent_to, syncvars, drawvars, enginevars, connvars, storevars,
                   roomvars>>

\* ConnectionManager.broadcast_to_room: get_room_sessions_async has answered
GetRoomSessions(t) ==
    /\ tasks[t].pc = "sessions"
    /\ tasks' = [tasks EXCEPT ![t].pc = "sending",
                              ![t].todo = SessionList(presence)]
    /\ UNCHANGED <<room_sequences, message_buffers, presence, active,
                   received, published, outbox, sent_to, syncvars, drawvars, enginevars, connvars, storevars,
                   roomvars>>

\* ConnectionManager.broadcast_to_room: one turn of its loop
SendToSession(t) ==
    /\ tasks[t].pc = "sending"
    /\ tasks[t].todo # <<>>
    /\ IF Head(tasks[t].todo) = tasks[t].exclude
       THEN UNCHANGED <<received, outbox, sent_to>>
       ELSE send_to_session(Head(tasks[t].todo), tasks[t].seq)
    /\ tasks' = [tasks EXCEPT ![t].todo = Tail(@)]
    /\ UNCHANGED <<room_sequences, message_buffers, presence, active,
                   published, syncvars, drawvars, enginevars, connvars, storevars,
                   roomvars>>

\* ConnectionManager.broadcast_to_room returns to the caller
BroadcastReturn(t) ==
    /\ tasks[t].pc = "sending"
    /\ tasks[t].todo = <<>>
    /\ tasks' = [tasks EXCEPT ![t] = [IdleTask EXCEPT !.pc = tasks[t].after]]
    /\ UNCHANGED <<room_sequences, message_buffers, presence, active,
                   received, published, outbox, sent_to, syncvars, drawvars, enginevars, connvars, storevars,
                   roomvars>>

\* the least of a non-empty set of numbers
Min(S) == CHOOSE m \in S : \A n \in S : m <= n

\* MessageSequencer._cleanup_acknowledged_messages: the buffer without the
\* messages every tracked client has acknowledged
cleanup_acknowledged_messages(sequences, buffer) ==
    LET tracked == {s \in Sessions : sequences[s] # Nil}
    IN  IF tracked = {} THEN buffer
        ELSE SelectSeq(buffer,
                 LAMBDA q : q > Min({sequences[s] : s \in tracked}))

\* MessageSequencer.set_client_sequence
set_client_sequence(s, seq_num) ==
    /\ client_sequences' = [client_sequences EXCEPT ![s] = seq_num]
    /\ message_buffers' = cleanup_acknowledged_messages(
                              [client_sequences EXCEPT ![s] = seq_num],
                              message_buffers)

\* MessageSequencer.get_client_sequence
get_client_sequence(s) ==
    IF client_sequences[s] = Nil THEN 0 ELSE client_sequences[s]

\* MessageSequencer.get_messages_since
get_messages_since(since_seq) ==
    SelectSeq(message_buffers, LAMBDA q : q > since_seq)

\* the seq_nums a websocket was sent
SeqNums(list) == {list[i] : i \in 1..Len(list)}

\* ConnectionManager.acknowledge_sequence for an ack_seq message of session s
\* carrying one of the seq_nums it was sent: set_client_sequence, handle_ack
AcknowledgeSequence(s, seq_num) ==
    /\ s \in active
    /\ s = EndpointSession => tasks["endpoint"].pc = "idle"
    /\ seq_num \in SeqNums(received[s])
    /\ set_client_sequence(s, seq_num)
    /\ IF seq_num > last_ack_seq[s]
       THEN /\ last_ack_seq' = [last_ack_seq EXCEPT ![s] = seq_num]
            /\ cursor' = [cursor EXCEPT ![s] = seq_num]
       ELSE UNCHANGED <<last_ack_seq, cursor>>
    /\ UNCHANGED <<room_sequences, presence, active, tasks, received,
                   published, outbox, sent_to, player_checkpoints, synced,
                   drawvars, enginevars, connvars, storevars, roomvars>>

\* websocket_endpoint's finally: disconnect_session (sequencer.remove_client),
\* disconnect_connection up to the await of _enter_grace_period
Disconnect ==
    /\ tasks["endpoint"].pc = "idle"
    /\ EndpointSession \in active
    /\ active' = active \ {EndpointSession}
    /\ client_sequences' = [client_sequences EXCEPT ![EndpointSession] = Nil]
    /\ synced' = [NotSynced EXCEPT !.k = get_client_sequence(EndpointSession)]
    /\ tasks' = [tasks EXCEPT !["endpoint"].pc = "left"]
    /\ UNCHANGED <<room_sequences, message_buffers, presence, received,
                   published, outbox, sent_to, last_ack_seq, cursor,
                   player_checkpoints, drawvars, enginevars, connvars, storevars,
                   roomvars>>

\* disconnect_connection: send_sequenced_message(room, "player_left")
PlayerLeft ==
    /\ tasks["endpoint"].pc = "left"
    /\ SendSequenced("endpoint", NoSuchPlayer, "closed")
    /\ UNCHANGED <<presence, active, received, published, outbox, sent_to,
                   syncvars, drawvars, enginevars, connvars, storevars,
                   roomvars>>

\* websocket_endpoint for the next websocket of the session:
\* add_to_room, register_connection
Connect ==
    /\ tasks["endpoint"].pc = "closed"
    /\ active' = active \cup {EndpointSession}
    /\ presence' = presence \cup {EndpointSession}
    /\ last_ack_seq' = [last_ack_seq EXCEPT ![EndpointSession] = 0]
    /\ tasks' = [tasks EXCEPT !["endpoint"].pc = "joined"]
    /\ UNCHANGED <<room_sequences, message_buffers, received, published,
                   outbox, sent_to, client_sequences, cursor,
                   player_checkpoints, synced, drawvars, enginevars, connvars, storevars,
                   roomvars>>

\* add_to_room: send_sequenced_message(room, "player_joined") to the others
PlayerJoined ==
    /\ tasks["endpoint"].pc = "joined"
    /\ SendSequenced("endpoint", EndpointSession, "checkpoint")
    /\ UNCHANGED <<presence, active, received, published, outbox, sent_to,
                   syncvars, drawvars, enginevars, connvars, storevars,
                   roomvars>>

\* GameOrchestrator._create_player_checkpoint after load_game has answered:
\* MessageSequencer.create_player_checkpoint at the room's current seq_num
CreatePlayerCheckpoint ==
    /\ tasks["endpoint"].pc = "checkpoint"
    /\ player_checkpoints' =
           [player_checkpoints EXCEPT ![EndpointSession] = room_sequences]
    /\ tasks' = [tasks EXCEPT !["endpoint"].pc = "synchronize"]
    /\ UNCHANGED <<room_sequences, message_buffers, presence, active,
                   received, published, outbox, sent_to, client_sequences,
                   last_ack_seq, cursor, synced, drawvars, enginevars, connvars, storevars,
                   roomvars>>

\* ConnectionManager.synchronize_client up to its first await:
\* get_synchronization_data, then the checkpoint goes out
SynchronizeClient ==
    /\ tasks["endpoint"].pc = "synchronize"
    /\ synced' = [synced EXCEPT
                      !.checkpoint = player_checkpoints[EndpointSession]]
    /\ tasks' = [tasks EXCEPT !["endpoint"] =
                     [IdleTask EXCEPT
                          !.pc = "missing",
                          !.seq = room_sequences,
                          !.todo = get_messages_since(
                                       get_client_sequence(EndpointSession))]]
    /\ UNCHANGED <<room_sequences, message_buffers, presence, active,
                   received, published, outbox, sent_to, client_sequences,
                   last_ack_seq, cursor, player_checkpoints, drawvars, enginevars, connvars, storevars,
                   roomvars>>

\* synchronize_client: one turn of the loop over the missing messages
SendMissing ==
    /\ tasks["endpoint"].pc = "missing"
    /\ tasks["endpoint"].todo # <<>>
    /\ synced' = [synced EXCEPT
                      !.messages = Append(@, Head(tasks["endpoint"].todo))]
    /\ tasks' = [tasks EXCEPT !["endpoint"].todo = Tail(@)]
    /\ UNCHANGED <<room_sequences, message_buffers, presence, active,
                   received, published, outbox, sent_to, client_sequences,
                   last_ack_seq, cursor, player_checkpoints, drawvars, enginevars, connvars, storevars,
                   roomvars>>

\* synchronize_client: the ready message goes out, then set_client_sequence
SendReady ==
    /\ tasks["endpoint"].pc = "missing"
    /\ tasks["endpoint"].todo = <<>>
    /\ synced' = [synced EXCEPT !.ready = tasks["endpoint"].seq]
    /\ set_client_sequence(EndpointSession, tasks["endpoint"].seq)
    /\ tasks' = [tasks EXCEPT !["endpoint"] = IdleTask]
    /\ UNCHANGED <<room_sequences, presence, active, received, published,
                   outbox, sent_to, last_ack_seq, cursor, player_checkpoints,
                   drawvars, enginevars, connvars, storevars, roomvars>>

NextBroadcast ==
    \/ BroadcastGameEvent
    \/ BroadcastCardDrawn
    \/ NextPersonalized
    \/ PersonalizedReturn
    \/ \E t \in DOMAIN tasks : GetRoomSessions(t)
    \/ \E t \in DOMAIN tasks : SendToSession(t)
    \/ \E t \in DOMAIN tasks : BroadcastReturn(t)
    \/ \E s \in Sessions : \E seq_num \in 1..MaxSeq :
           AcknowledgeSequence(s, seq_num)
    \/ Disconnect
    \/ PlayerLeft
    \/ Connect
    \/ PlayerJoined
    \/ CreatePlayerCheckpoint
    \/ SynchronizeClient
    \/ SendMissing
    \/ SendReady

SpecBroadcast == Init /\ [][NextBroadcast]_vars

(***************************************************************************)
(* The connections of one session.                                         *)
(*                                                                         *)
(* The session holds one active connection; later websockets of the same   *)
(* session each run add_to_room in a coroutine of their own, and every     *)
(* websocket's endpoint runs disconnect_session when its transport is      *)
(* gone.  One action is the code between two awaits.                       *)
(***************************************************************************)

\* disconnect_connection once the websocket is dealt with, up to the next
\* await: _enter_grace_period marks an active connection, _cleanup_connection
\* forgets any other
LeaveConnection(c) ==
    IF connections[c] = "active"
    THEN /\ connections' = [connections EXCEPT ![c] = "grace_period"]
         /\ grace' = [grace EXCEPT !.cleanups[c] = "setex"]
         /\ UNCHANGED session_to_connection
    ELSE /\ connections' = [connections EXCEPT ![c] = "absent"]
         /\ session_to_connection' =
                IF session_to_connection = c /\ connections[c] # "absent"
                THEN Nil ELSE session_to_connection
         /\ UNCHANGED grace

\* register_connection: the new connection is stored as the session's own
StoreConnection(r) ==
    /\ connections' = [connections EXCEPT ![r] = "active"]
    /\ session_to_connection' = r
    /\ websockets' = websockets \cup {r}

\* handle_reconnect up to the answer of _get_grace_period_info
HandleReconnect(r) ==
    /\ registrations[r].pc = "new"
    /\ registrations' = [registrations EXCEPT ![r].pc = "registering"]
    /\ UNCHANGED <<connections, session_to_connection, websockets, closed,
                   finalised, grace, enginevars, netvars, storevars, roomvars>>

\* register_connection up to its first await: an old connection that still
\* has a websocket is disconnected first (await ws.close()), otherwise the
\* new connection is stored at once
RegisterConnection(r) ==
    /\ registrations[r].pc \in {"new", "registering"}
    /\ LET old == session_to_connection
       IN  IF old # Nil /\ old \in websockets /\ connections[old] # "absent"
           THEN /\ registrations' = [registrations EXCEPT
                                         ![r] = [pc |-> "closing", old |-> old]]
                /\ UNCHANGED <<connections, session_to_connection, websockets>>
           ELSE /\ StoreConnection(r)
                /\ registrations' = [registrations EXCEPT ![r].pc = "storing"]
    /\ UNCHANGED <<closed, finalised, grace, enginevars, netvars, storevars,
                   roomvars>>

\* disconnect_connection(old, close_websocket=True): ws.close() has returned;
\* del self.websockets[old] raises KeyError when another coroutine deleted it
CloseReturns(r) ==
    /\ registrations[r].pc = "closing"
    /\ closed' = closed \cup {registrations[r].old}
    /\ IF registrations[r].old \in websockets
       THEN /\ websockets' = websockets \ {registrations[r].old}
            /\ LeaveConnection(registrations[r].old)
            /\ registrations' =
                   [registrations EXCEPT
                       ![r].pc = IF connections[registrations[r].old] = "active"
                                 THEN "entering" ELSE "leaving"]
       ELSE /\ registrations' = [registrations EXCEPT ![r].pc = "failed"]
            /\ UNCHANGED <<connections, session_to_connection, websockets,
                           grace>>
    /\ UNCHANGED <<finalised, enginevars, netvars, storevars, roomvars>>

\* disconnect_connection has returned to register_connection, which stores
\* the new connection
LeaveReturns(r) ==
    /\ registrations[r].pc = "leaving"
    /\ StoreConnection(r)
    /\ registrations' = [registrations EXCEPT ![r].pc = "storing"]
    /\ UNCHANGED <<closed, finalised, grace, enginevars, netvars, storevars,
                   roomvars>>

\* register_connection returns after _store_connection_redis
RegisterReturns(r) ==
    /\ registrations[r].pc = "storing"
    /\ registrations' = [registrations EXCEPT ![r].pc = "done"]
    /\ UNCHANGED <<connections, session_to_connection, websockets, closed,
                   finalised, grace, enginevars, netvars, storevars, roomvars>>

\* add_to_room has returned for the websocket of connection c
Registered(c) == IF c = 0 THEN TRUE ELSE registrations[c].pc = "done"

\* register_connection raised for the websocket of connection c
Failed(c) == IF c = 0 THEN FALSE ELSE registrations[c].pc = "failed"

\* the peer closes the transport of a registered connection
TransportDrops(c) ==
    /\ c \notin closed
    /\ Registered(c)
    /\ closed' = closed \cup {c}
    /\ UNCHANGED <<connections, session_to_connection, websockets, finalised,
                   registrations, grace, enginevars, netvars, storevars,
                   roomvars>>

\* websocket_endpoint's finally for transport c: disconnect_session looks up
\* the session's connection and disconnects it without closing
DisconnectSession(c) ==
    /\ c \notin finalised
    /\ (c \in closed /\ Registered(c)) \/ Failed(c)
    /\ finalised' = finalised \cup {c}
    /\ IF session_to_connection # Nil
       THEN LeaveConnection(session_to_connection)
       ELSE UNCHANGED <<connections, session_to_connection, grace>>
    /\ UNCHANGED <<websockets, closed, registrations, enginevars, netvars, storevars,
                   roomvars>>

\* _enter_grace_period of connection c after its await: setex has stored
\* grace:{session}, and the cleanup task is created.  A register_connection
\* that was closing c goes on.
EnterGracePeriod(c) ==
    /\ grace.cleanups[c] = "setex"
    /\ grace' = [key |-> c, cleanups |-> [grace.cleanups EXCEPT ![c] = "sleeping"]]
    /\ registrations' =
           [r \in Registrations |->
               IF registrations[r].pc = "entering" /\ registrations[r].old = c
               THEN [registrations[r] EXCEPT !.pc = "leaving"]
               ELSE registrations[r]]
    /\ UNCHANGED <<connections, session_to_connection, websockets, closed,
                   finalised, enginevars, netvars, storevars, roomvars>>

\* _grace_period_cleanup leaves the session alone
session_reconnected_never == FALSE

\* _grace_period_cleanup: "Check if session reconnected"
session_reconnected ==
    IF session_to_connection # Nil
    THEN connections[session_to_connection] = "active"
    ELSE FALSE

\* _grace_period_cleanup of the grace period of connection c: the sleep is
\* over; up to the return or the await of the delete
GracePeriodCleanup(c) ==
    /\ grace.cleanups[c] = "sleeping"
    /\ grace' = [grace EXCEPT
                    !.cleanups[c] = IF session_reconnected
                                    THEN "returned" ELSE "deleting"]
    /\ UNCHANGED <<connections, session_to_connection, websockets, closed,
                   finalised, registrations, enginevars, netvars, storevars,
                   roomvars>>

\* _grace_period_cleanup: grace:{session} is deleted
GraceDeleted(c) ==
    /\ grace.cleanups[c] = "deleting"
    /\ grace' = [key |-> Nil, cleanups |-> [grace.cleanups EXCEPT ![c] = "deleted"]]
    /\ UNCHANGED <<connections, session_to_connection, websockets, closed,
                   finalised, registrations, enginevars, netvars, storevars,
                   roomvars>>

NextConnections ==
    \/ \E c \in ConnectionIds : EnterGracePeriod(c)
    \/ \E c \in ConnectionIds : GracePeriodCleanup(c)
    \/ \E c \in ConnectionIds : GraceDeleted(c)
    \/ \E r \in Registrations : HandleReconnect(r)
    \/ \E r \in Registrations : RegisterConnection(r)
    \/ \E r \in Registrations : CloseReturns(r)
    \/ \E r \in Registrations : LeaveReturns(r)
    \/ \E r \in Registrations : RegisterReturns(r)
    \/ \E c \in ConnectionIds : TransportDrops(c)
    \/ \E c \in ConnectionIds : DisconnectSession(c)

SpecConnections == Init /\ [][NextConnections]_vars

(***************************************************************************)
(* The game store.                                                         *)
(*                                                                         *)
(* A game lives in Redis between two rounds of the room's message          *)
(* processor: every round loads it, adds the messages that arrived,        *)
(* processes them and saves it.  Other coroutines load it as well.  The    *)
(* variables of the Engine are the processor's CaboGame object.  Redis     *)
(* outlives the server (restore_all_active_games), so the room may have a  *)
(* snapshot when the orchestrator starts.                                  *)
(***************************************************************************)

\* RedisGameStore.serialize_card, as the JSON text stored
serialize_card(card) ==
    IF card = NoCard THEN JsonNull
    ELSE [rank |-> card.rank,
          suit |-> IF card.suit = "none" THEN "null" ELSE card.suit]

\* RedisGameStore.deserialize_card of the parsed JSON text
deserialize_card(card_data) ==
    IF card_data = JsonNull THEN NoCard
    ELSE Card(card_data.rank,
              IF card_data.suit = "null" THEN "none" ELSE card_data.suit)

\* one field of turn_data in save_game: a field whose text is empty, '""'
\* or 'null' is not written, so the hash keeps what it held
TurnField(old, new, empty) == IF new = empty THEN old ELSE new

\* RedisGameStore.save_game of game g over the keys old: what pipe.execute()
\* leaves in Redis.  card_visibility is empty in every game load_game made,
\* so no viewed key is written.
save_game(old, g) ==
    [exists |-> TRUE,
     meta |-> [phase |-> g.state.phase,
               current_player_index |-> g.state.current_player_index,
               final_round_started |-> g.state.final_round_started,
               winner |-> g.state.winner,
               pending_timeouts |-> g.pending_timeouts],
     players |-> [p \in PlayerIds |->
                     LET player == g.players[get_player_by_id(g, p)]
                     IN  [hand |-> [i \in 1..Len(player.hand) |->
                                       serialize_card(player.hand[i])],
                          has_called_cabo |-> player.has_called_cabo]],
     deck |-> [i \in 1..Len(g.deck) |-> serialize_card(g.deck[i])],
     discard |-> [i \in 1..Len(g.discard_pile) |->
                     serialize_card(g.discard_pile[i])],
     turn |->
        [drawn_card |->
             TurnField(Keys(old).turn.drawn_card,
                       serialize_card(g.state.drawn_card), JsonNull),
         played_card |->
             TurnField(Keys(old).turn.played_card,
                       serialize_card(g.state.played_card), JsonNull),
         stack_caller |->
             TurnField(Keys(old).turn.stack_caller, g.state.stack_caller, Nil),
         stack_timer_id |->
             TurnField(Keys(old).turn.stack_timer_id, g.state.stack_timer_id, Nil),
         special_action_player |->
             TurnField(Keys(old).turn.special_action_player,
                       g.state.special_action_player, Nil),
         special_action_type |->
             TurnField(Keys(old).turn.special_action_type,
                       g.state.special_action_type, "None"),
         special_action_timer_id |->
             TurnField(Keys(old).turn.special_action_timer_id,
                       g.state.special_action_timer_id, Nil),
         king_viewed_card |->
             TurnField(Keys(old).turn.king_viewed_card,
                       serialize_card(g.state.king_viewed_card), JsonNull),
         king_viewed_player |->
             TurnField(Keys(old).turn.king_viewed_player,
                       g.state.king_viewed_player, Nil),
         king_viewed_index |->
             TurnField(Keys(old).turn.king_viewed_index,
                       g.state.king_viewed_index, Nil),
         turn_transition_timer_id |->
             TurnField(Keys(old).turn.turn_transition_timer_id,
                       g.state.turn_transition_timer_id, Nil),
         setup_timer_id |->
             TurnField(Keys(old).turn.setup_timer_id, g.state.setup_timer_id, Nil),
         cabo_caller |->
             TurnField(Keys(old).turn.cabo_caller, g.state.cabo_caller, Nil)],
     viewed |-> Keys(old).viewed]

\* RedisManager.get_all_players: the player keys in the order SCAN gives them
ScanOrders ==
    {order \in [1..NumPlayers -> PlayerIds] :
        \A i, j \in 1..NumPlayers : order[i] = order[j] => i = j}

\* a timer id of a CaboGame made inside load_game: no pending timer has it
FreshTimerId == MaxTimers + 1

\* RedisGameStore.load_game from the keys read, the player keys scanned in
\* order: CaboGame(player_ids, player_names), then the fields it restores.
\* temporarily_viewed_cards stays as the constructor made it.
load_game(read, order) ==
    LET turn_data == read.turn
        restored ==
            [GameState EXCEPT
                !.drawn_card = deserialize_card(turn_data.drawn_card),
                !.played_card = deserialize_card(turn_data.played_card),
                !.stack_caller = turn_data.stack_caller,
                !.stack_timer_id = turn_data.stack_timer_id,
                !.special_action_player = turn_data.special_action_player,
                !.special_action_type = turn_data.special_action_type,
                !.special_action_timer_id = turn_data.special_action_timer_id,
                !.king_viewed_card = deserialize_card(turn_data.king_viewed_card),
                !.king_viewed_player = turn_data.king_viewed_player,
                !.king_viewed_index = turn_data.king_viewed_index,
                !.turn_transition_timer_id = turn_data.turn_transition_timer_id,
                !.setup_timer_id = turn_data.setup_timer_id,
                !.cabo_caller = turn_data.cabo_caller]
    IN  [deck |-> [i \in 1..Len(read.deck) |-> deserialize_card(read.deck[i])],
         discard_pile |-> [i \in 1..Len(read.discard) |->
                              deserialize_card(read.discard[i])],
         players |->
             [i \in 1..NumPlayers |->
                 [player_id |-> order[i],
                  hand |-> [j \in 1..Len(read.players[order[i]].hand) |->
                               deserialize_card(read.players[order[i]].hand[j])],
                  has_called_cabo |-> read.players[order[i]].has_called_cabo]],
         state |->
             [(IF turn_data = EmptyKeys.turn
               THEN [GameState EXCEPT !.setup_timer_id = FreshTimerId]
               ELSE restored) EXCEPT
                 !.phase = read.meta.phase,
                 !.current_player_index = read.meta.current_player_index,
                 !.final_round_started = read.meta.final_round_started,
                 !.winner = read.meta.winner,
                 !.temporarily_viewed_cards =
                     [p \in PlayerIds |-> {<<p, 0>>, <<p, 1>>}]],
         pending_timeouts |-> read.meta.pending_timeouts]

\* the messages the processor finds in the room's queue in one round
QueuedMessages ==
    {<<>>}
    \cup {<<DrawCardMessage(p)>> : p \in PlayerIds}
    \cup {<<PlayDrawnCardMessage(p)>> : p \in PlayerIds}
    \cup {<<ReplaceAndPlayMessage(p, 0)>> : p \in PlayerIds}

\* CaboGame._handle_message for the messages of a round; start is the seat
\* SETUP_TIMEOUT draws
handle_message(g, message, start) ==
    CASE message.type = "draw_card" -> handle_draw_card(g, message)
      [] message.type = "play_drawn_card" -> handle_play_drawn_card(g, message)
      [] message.type = "replace_and_play" ->
             handle_replace_and_play(g, message)
      [] message.type = "stack_timeout" -> handle_stack_timeout(g)
      [] message.type = "special_action_timeout" ->
             handle_special_action_timeout(g)
      [] message.type = "turn_transition_timeout" ->
             handle_turn_transition_timeout(g)
      [] message.type = "setup_timeout" -> handle_setup_timeout(g, start)
      [] message.type = "next_turn" -> handle_next_turn(g)
      [] message.type = "end_game" -> handle_end_game(g)

\* the loop of CaboGame.process_messages as a function: the game and the
\* events once queue is empty
\* (handled lists the queued intents in the order they were got from the
\* queue, each with its handler's success)
RECURSIVE process_queue(_, _, _, _, _)
process_queue(g, queue, start, evs, handled) ==
    IF queue = <<>> THEN [g |-> g, events |-> evs, handled |-> handled]
    ELSE LET r == handle_message(g, Head(queue), start)
         IN  process_queue(r.g,
                           Tail(queue) \o
                               (IF r.success
                                THEN [i \in 1..Len(r.next_messages) |->
                                         [type |-> r.next_messages[i]]]
                                ELSE <<>>),
                           start,
                           IF r.success THEN evs \o r.events ELSE evs,
                           IF "timestamp" \in DOMAIN Head(queue)
                           THEN Append(handled,
                                       [timestamp |-> Head(queue).timestamp,
                                        success |-> r.success])
                           ELSE handled)

\* game.add_message for each queued message, then game.process_messages()
\* while the timers expired have run out
process_messages(g, queued, expired, start) ==
    LET c == check_timeouts(g, g.pending_timeouts, expired, <<>>)
    IN  process_queue(c.g,
                      queued \o [i \in 1..Len(c.put) |-> [type |-> c.put[i]]],
                      start, <<>>, <<>>)

\* a room whose snapshot an earlier run of the server left in Redis
InitStore ==
    \E k \in 1..NumShuffles :
        /\ Constructed(k)
        /\ snapshot \in {NoSnapshot, save_game(NoSnapshot, Game)}
        /\ written = {snapshot}

\* GameOrchestrator.create_game: the game is new, and save_game raises
\* AttributeError at game.state.card_visibility before anything is written
CreateGame ==
    /\ processor.pc = "new"
    /\ ~snapshot.exists
    /\ IF card_visibility
       THEN /\ snapshot' = save_game(snapshot, Game)
            /\ processor' = [processor EXCEPT !.pc = "loop",
                                              !.saves = @ + 1,
                                              !.tasks = 1]
       ELSE /\ snapshot' = snapshot
            /\ processor' = [processor EXCEPT !.pc = "failed",
                                              !.raised = TRUE]
    /\ written' = written \cup {snapshot'}
    /\ UNCHANGED <<inbound, card_visibility, loads, enginevars, netvars, connvars, roomvars>>

\* RedisGameStore.get_game_phase: the text of the meta hash's phase field,
\* which save_game wrote as game.state.phase.value
get_game_phase(stored) ==
    IF stored.exists THEN stored.meta.phase ELSE "None"

\* RedisGameStore.is_game_ended
is_game_ended(stored) ==
    LET phase == get_game_phase(stored)
    IN  IF phase # "None" THEN phase = "ENDED" ELSE TRUE

\* RedisGameStore.list_active_games: whether the room is in the list
list_active_games(stored) ==
    stored.exists /\ stored.meta.phase # "ENDED"

\* GameOrchestrator.restore_all_active_games: the room's processor starts
RestoreActiveGame ==
    /\ processor.pc = "new"
    /\ list_active_games(snapshot)
    /\ processor' = [processor EXCEPT !.pc = "loop", !.tasks = 1]
    /\ UNCHANGED <<inbound, snapshot, written, card_visibility, loads, enginevars,
                   netvars, connvars, roomvars>>

\* process_game_messages: a round begins with is_game_ended; the loop
\* breaks to end_game when it says so, and drains the queue otherwise
IsGameEnded ==
    /\ processor.pc = "loop"
    /\ processor' = [processor EXCEPT
                        !.pc = IF is_game_ended(snapshot)
                               THEN "end_game" ELSE "pop"]
    /\ UNCHANGED <<inbound, snapshot, written, card_visibility, loads, enginevars,
                   netvars, connvars, roomvars>>

\* RedisGameStore.load_game up to its second await: is_game_active.  The
\* processor calls it once a round; the endpoint whenever it is idle.
StartLoad(l) ==
    /\ loads[l].pc = 0
    /\ l = "processor" =>
           processor.pc = "pop" /\ processor.saves < MaxSaves
    /\ loads' = [loads EXCEPT ![l] =
                    IF snapshot.exists
                    THEN [pc |-> 1, read |-> [EmptyKeys EXCEPT !.exists = TRUE],
                          found |-> FALSE]
                    ELSE IdleLoad]
    /\ processor' = IF l = "processor"
                    THEN [processor EXCEPT !.pc = "loading"]
                    ELSE processor
    /\ UNCHANGED <<inbound, snapshot, written, card_visibility, enginevars, netvars,
                   connvars, roomvars>>

\* load_game: the next key is read
LoadStep(l) ==
    /\ loads[l].pc \in 1..Len(LoadKeys)
    /\ LET key == LoadKeys[loads[l].pc]
       IN  loads' = [loads EXCEPT
                        ![l].read = [@ EXCEPT ![key] = snapshot[key]],
                        ![l].pc = IF @ = Len(LoadKeys) THEN 0 ELSE @ + 1,
                        ![l].found = loads[l].pc = Len(LoadKeys)]
    /\ UNCHANGED <<inbound, snapshot, written, card_visibility, processor, enginevars,
                   netvars, connvars, roomvars>>

\* process_game_messages: load_game has returned the game; the messages
\* queued are added and processed (any: the pops returned a message)
ProcessRound(queued, any) ==
    /\ processor.pc = "loading"
    /\ loads["processor"].pc = 0
    /\ loads["processor"].found
    /\ \E order \in ScanOrders, start \in 0..(NumPlayers - 1) :
           LET g == load_game(loads["processor"].read, order)
           IN  /\ NewTimerId(g) <= MaxTimers
               /\ \E expired \in SUBSET UsedTimers(g) :
                      LET r == process_messages(g, queued, expired, start)
                      IN  /\ deck' = r.g.deck
                          /\ discard_pile' = r.g.discard_pile
                          /\ players' = r.g.players
                          /\ state' = r.g.state
                          /\ pending_timeouts' = r.g.pending_timeouts
                          /\ processor' =
                                 [processor EXCEPT
                                     !.pc = IF r.events # <<>> \/ any
                                            THEN "save" ELSE "loop"]
                          /\ inbound' =
                                 [inbound EXCEPT
                                     !.messages = <<>>,
                                     !.handled = @ \o r.handled]
    /\ card_visibility' = TRUE
    /\ loads' = [loads EXCEPT !["processor"] = IdleLoad]
    /\ UNCHANGED <<snapshot, written, message_queue, pc, events, result,
                   added, injected, history, netvars, connvars, roomvars>>

\* a round of process_game_messages with the messages the pops returned
ProcessLoaded ==
    \E queued \in QueuedMessages : ProcessRound(queued, queued # <<>>)

\* process_game_messages: save_game under the room's lock, one transaction
SaveGame ==
    /\ processor.pc = "save"
    /\ snapshot' = save_game(snapshot, Game)
    /\ written' = written \cup {snapshot'}
    /\ processor' = [processor EXCEPT !.pc = "loop", !.saves = @ + 1]
    /\ UNCHANGED <<inbound, card_visibility, loads, enginevars, netvars, connvars, roomvars>>

NextStore ==
    \/ CreateGame
    \/ RestoreActiveGame
    \/ IsGameEnded
    \/ \E l \in Loaders : StartLoad(l)
    \/ \E l \in Loaders : LoadStep(l)
    \/ ProcessLoaded
    \/ SaveGame

SpecStore == InitStore /\ [][NextStore]_vars

(***************************************************************************)
(* The room loop to its end.                                               *)
(*                                                                         *)
(* SpecRoomLoop follows process_game_messages of a room whose game is in   *)
(* its final round: Cabo has been called and the turn has passed on.  The  *)
(* keys of the game expire 24 hours after the last save, and the server    *)
(* may be started again at any time.  Only the loop loads the game here.   *)
(***************************************************************************)
\* the game of shuffle k in which seat start called Cabo on the first turn
CaboCalled(k, start) ==
    LET g == NewGame(k)
        c == check_timeouts(g, g.pending_timeouts, {g.state.setup_timer_id}, <<>>)
        playing == handle_setup_timeout(c.g, start).g
        called == handle_call_cabo(
                      playing,
                      CallCaboMessage(get_current_player(playing).player_id))
    IN  run_queue(called.g, called.next_messages)

InitRoomLoop ==
    \E k \in 1..NumShuffles, start \in 0..(NumPlayers - 1) :
        /\ Holding(CaboCalled(k, start))
        /\ history = [turn_draws |-> 0, stack_calls |-> 0, turn_ends |-> 0,
                      event_cards |-> {},
                      final_turns |-> <<>>,
                      final_draws |-> [p \in PlayerIds |-> 0]]
        /\ RoomOpened
        /\ snapshot = save_game(NoSnapshot, Game)
        /\ written = {snapshot}

\* the TTL save_game sets on every key of the game runs out
Expire ==
    /\ processor.pc = "loop"
    /\ snapshot.exists
    /\ \A l \in Loaders : loads[l].pc = 0
    /\ snapshot' = NoSnapshot
    /\ written' = written \cup {NoSnapshot}
    /\ UNCHANGED <<inbound, card_visibility, processor, loads, enginevars, netvars,
                   connvars, roomvars>>

\* GameOrchestrator.end_game called by the task p of the room's loop: the
\* entry of processing_tasks is that task, so it cancels itself, and
\* CancelledError is raised in it where it next waits, on the first command
\* of cleanup_game; the keys are deleted and game_cleanup is broadcast only
\* when the room has no such entry
end_game(p, stored) ==
    LET cancelled == p.tasks > 0
    IN  [processor |-> [p EXCEPT !.pc = "stopped", !.tasks = 0,
                                 !.cleanup = ~cancelled],
         stored |-> IF cancelled THEN stored ELSE NoSnapshot]

\* process_game_messages: finally, end_game
OrchestratorEndGame ==
    /\ processor.pc = "end_game"
    /\ LET r == end_game(processor, snapshot)
       IN  /\ processor' = r.processor
           /\ snapshot' = r.stored
    /\ written' = written \cup {snapshot'}
    /\ UNCHANGED <<inbound, card_visibility, loads, enginevars, netvars, connvars,
                   roomvars>>

\* the server stops and starts again (app.main lifespan): its tasks and
\* its CaboGame objects are gone, Redis is as it was
Restart ==
    /\ processor.pc # "new"
    /\ processor' = [processor EXCEPT !.pc = "new", !.raised = FALSE,
                                      !.tasks = 0, !.cleanup = FALSE]
    /\ loads' = [l \in Loaders |-> IdleLoad]
    /\ card_visibility' = FALSE
    /\ UNCHANGED <<inbound, snapshot, written, enginevars, netvars, connvars, roomvars>>

NextRoomLoop ==
    \/ RestoreActiveGame
    \/ IsGameEnded
    \/ StartLoad("processor")
    \/ LoadStep("processor")
    \/ ProcessLoaded
    \/ SaveGame
    \/ Expire
    \/ OrchestratorEndGame
    \/ Restart

SpecRoomLoop == InitRoomLoop /\ [][NextRoomLoop]_vars

(***************************************************************************)
(* The room's queue.                                                       *)
(*                                                                         *)
(* SpecQueue follows the intents of the sessions from push_message to the  *)
(* Engine's handlers: the Redis list, the pops of a round of the loop,     *)
(* add_message in the order popped, and process_messages.                  *)
(***************************************************************************)
\* what handle_player_message pushes: the session, the type and the data of
\* the client's message, and the time it arrived
QueuedIntent(session_id, type, n) ==
    [session_id |-> session_id, type |-> type, timestamp |-> n]

\* the message types the clients send in this specification
IntentTypes == {"draw_card", "play_drawn_card"}

\* push_message with RPUSH: the message goes to the end BRPOP takes from
push_message_at_tail(queue, message) == Append(queue, message)

\* RedisManager.push_message: LPUSH puts the message at the head of the list
push_message(queue, message) == <<message>> \o queue

\* RedisManager.pop_message: BRPOP takes the message at the tail of the list
pop_message(queue) ==
    [message |-> queue[Len(queue)],
     queue |-> SubSeq(queue, 1, Len(queue) - 1)]

\* GameOrchestrator._deserialize_message: the GameMessage of a queued
\* intent, <<>> for None (an unknown type).  The timestamp is kept to tell
\* the intents apart; no handler reads it.
deserialize_message(popped) ==
    LET made(message) ==
            <<[type |-> message.type, player_id |-> message.player_id,
               timestamp |-> popped.timestamp]>>
    IN  CASE popped.type = "draw_card" ->
                 made(DrawCardMessage(popped.session_id))
          [] popped.type = "play_drawn_card" ->
                 made(PlayDrawnCardMessage(popped.session_id))
          [] OTHER -> <<>>

\* process_game_messages: game.add_message for each message popped that
\* deserializes, in the order popped
RECURSIVE add_messages(_)
add_messages(messages) ==
    IF messages = <<>> THEN <<>>
    ELSE deserialize_message(Head(messages)) \o add_messages(Tail(messages))

\* GameOrchestrator.handle_player_message: a session's intent is pushed
PushMessage ==
    /\ inbound.pushed < MaxPushes
    /\ \E session_id \in PlayerIds, type \in IntentTypes :
           inbound' =
               [inbound EXCEPT
                   !.queue = push_message(@, QueuedIntent(session_id, type,
                                                          inbound.pushed + 1)),
                   !.pushed = @ + 1]
    /\ UNCHANGED <<snapshot, written, card_visibility, processor, loads,
                   enginevars, netvars, connvars, roomvars>>

\* process_game_messages: one pop of the round that returns a message
PopMessage ==
    /\ processor.pc = "pop"
    /\ inbound.queue # <<>>
    /\ inbound' = [inbound EXCEPT
                      !.queue = pop_message(@).queue,
                      !.messages = Append(@, pop_message(inbound.queue).message)]
    /\ UNCHANGED <<snapshot, written, card_visibility, processor, loads,
                   enginevars, netvars, connvars, roomvars>>

\* process_game_messages: the pop returned None, load_game begins
PoppedNone ==
    /\ inbound.queue = <<>>
    /\ StartLoad("processor")

\* process_game_messages: the messages popped are added and processed
ProcessPopped ==
    ProcessRound(add_messages(inbound.messages), inbound.messages # <<>>)

InitQueue ==
    /\ InitStore
    /\ snapshot.exists

NextQueue ==
    \/ RestoreActiveGame
    \/ IsGameEnded
    \/ PushMessage
    \/ PopMessage
    \/ PoppedNone
    \/ LoadStep("processor")
    \/ ProcessPopped
    \/ SaveGame

SpecQueue == InitQueue /\ [][NextQueue]_vars

(***************************************************************************)
(* RoomManager.                                                            *)
(*                                                                         *)
(* Every HTTP request runs RoomManager on an AsyncSession of its own       *)
(* (get_db): a SELECT reads what is committed when it runs, and what the   *)
(* request adds or deletes takes effect at its commit.  The requests       *)
(* interleave at every await, so one action is a SELECT or a commit.       *)
(* room.state in room_manager.py is the column GameRoom.phase.             *)
(***************************************************************************)
\* select(UserToRoom).where(UserToRoom.user_id == session_id): the database
\* compares the values
memberships_of(db, session_id) ==
    SelectSeq(db.user_to_room, LAMBDA m : m.user_id.value = session_id.value)

\* room.user_memberships, as selectinload reads it
memberships_in(db, room_id) ==
    SelectSeq(db.user_to_room, LAMBDA m : m.room_id = room_id)

\* the orders in which a SELECT without ORDER BY may return its rows
Orders(rows) ==
    LET n == Len(rows)
        perms == {q \in [1..n -> 1..n] : \A i, j \in 1..n : q[i] = q[j] => i = j}
    IN  {[i \in 1..n |-> rows[q[i]]] : q \in perms}

\* the request returns, or raises
Return(c, raised) ==
    requests' = [requests EXCEPT ![c].pc = "done", ![c].raised = raised]

\* routers/game.py: a request to create a room, to join the room of a code
\* or to leave the current room arrives from a session
Arrive(c) ==
    /\ requests[c].op = "none"
    /\ \A b \in 1..(c - 1) : requests[b].op # "none"
    /\ \E op \in {"create_room", "join_room", "leave_room"} :
       \E u \in RoomUsers :
       \E r \in (IF op = "join_room" THEN RoomIds ELSE {0}) :
           requests' = [requests EXCEPT ![c] =
                           [NoRequest EXCEPT
                               !.op = op,
                               !.pc = IF op = "join_room" THEN "find_room"
                                      ELSE "find_membership",
                               !.session_id = str(UUID(u)),
                               !.room_id = r]]
    /\ UNCHANGED <<database, enginevars, netvars, connvars, storevars>>

\* RoomManager.join_room: the room of the code is read with its memberships
JoinFindRoom(c) ==
    /\ requests[c].op = "join_room"
    /\ requests[c].pc = "find_room"
    /\ LET room == database.game_rooms[requests[c].room_id]
       IN  IF ~room.exists \/ room.phase # "WAITING"
           THEN Return(c, "ValueError")
           ELSE \E loaded \in Orders(memberships_in(database, requests[c].room_id)) :
                    requests' = [requests EXCEPT
                                    ![c].pc = "find_membership",
                                    ![c].user_memberships = loaded]
    /\ UNCHANGED <<database, enginevars, netvars, connvars, storevars>>

\* create_room and join_room: is the session already in a room?
\* scalar_one_or_none raises when it finds two rows
FindMembership(c) ==
    /\ requests[c].op \in {"create_room", "join_room"}
    /\ requests[c].pc = "find_membership"
    /\ LET rows == memberships_of(database, requests[c].session_id)
       IN  IF Len(rows) > 1 THEN Return(c, "MultipleResultsFound")
           ELSE IF Len(rows) = 1
           THEN requests' = [requests EXCEPT
                                ![c].pc = "find_current_room",
                                ![c].membership_room_id = rows[1].room_id]
           ELSE requests' = [requests EXCEPT ![c].pc = "insert"]
    /\ UNCHANGED <<database, enginevars, netvars, connvars, storevars>>

\* create_room and join_room: the room of the membership found; a
\* membership without a room is deleted
FindCurrentRoom(c) ==
    /\ requests[c].op \in {"create_room", "join_room"}
    /\ requests[c].pc = "find_current_room"
    /\ IF database.game_rooms[requests[c].membership_room_id].exists
       THEN /\ Return(c, "AlreadyInRoomError")
            /\ UNCHANGED database
       ELSE /\ database' =
                   [database EXCEPT
                       !.user_to_room =
                           SelectSeq(@, LAMBDA m :
                               m.user_id.value # requests[c].session_id.value)]
            /\ requests' = [requests EXCEPT ![c].pc = "insert"]
    /\ UNCHANGED <<enginevars, netvars, connvars, storevars>>

\* create_room: the room and the host's membership are committed
CreateRoom(c) ==
    /\ requests[c].op = "create_room"
    /\ requests[c].pc = "insert"
    /\ \E r \in RoomIds :
           /\ ~database.game_rooms[r].exists
           /\ \A q \in 1..(r - 1) : database.game_rooms[q].exists
           /\ database' =
                  [database EXCEPT
                      !.game_rooms[r] =
                          [exists |-> TRUE,
                           host_session_id |-> UUID(requests[c].session_id.value),
                           phase |-> "WAITING"],
                      !.user_to_room =
                          Append(@, [user_id |-> UUID(requests[c].session_id.value),
                                     room_id |-> r])]
    /\ Return(c, "none")
    /\ UNCHANGED <<enginevars, netvars, connvars, storevars>>

\* join_room: capacity by the memberships read with the room, then the
\* membership is committed; uq_user_room and the foreign key can refuse it
JoinRoom(c) ==
    /\ requests[c].op = "join_room"
    /\ requests[c].pc = "insert"
    /\ LET row == [user_id |-> UUID(requests[c].session_id.value),
                   room_id |-> requests[c].room_id]
       IN  IF Len(requests[c].user_memberships) >= MAX_PLAYERS
           THEN Return(c, "ValueError") /\ UNCHANGED database
           ELSE IF \/ ~database.game_rooms[requests[c].room_id].exists
                   \/ \E i \in 1..Len(database.user_to_room) :
                          database.user_to_room[i] = row
           THEN Return(c, "IntegrityError") /\ UNCHANGED database
           ELSE /\ database' = [database EXCEPT !.user_to_room = Append(@, row)]
                /\ Return(c, "none")
    /\ UNCHANGED <<enginevars, netvars, connvars, storevars>>

\* leave_room: the membership of the session
LeaveFindMembership(c) ==
    /\ requests[c].op = "leave_room"
    /\ requests[c].pc = "find_membership"
    /\ LET rows == memberships_of(database, requests[c].session_id)
       IN  IF Len(rows) > 1 THEN Return(c, "MultipleResultsFound")
           ELSE IF Len(rows) = 0 THEN Return(c, "none")
           ELSE requests' = [requests EXCEPT ![c].pc = "find_room",
                                             ![c].room_id = rows[1].room_id]
    /\ UNCHANGED <<database, enginevars, netvars, connvars, storevars>>

\* leave_room: the room is read with its memberships; without a room the
\* session's memberships are deleted
LeaveFindRoom(c) ==
    /\ requests[c].op = "leave_room"
    /\ requests[c].pc = "find_room"
    /\ LET room == database.game_rooms[requests[c].room_id]
       IN  IF ~room.exists
           THEN /\ database' =
                       [database EXCEPT
                           !.user_to_room =
                               SelectSeq(@, LAMBDA m :
                                   m.user_id.value # requests[c].session_id.value)]
                /\ Return(c, "none")
           ELSE /\ \E loaded \in Orders(memberships_in(database, requests[c].room_id)) :
                       requests' = [requests EXCEPT
                                       ![c].pc = "delete",
                                       ![c].host_session_id = room.host_session_id,
                                       ![c].user_memberships = loaded]
                /\ UNCHANGED database
    /\ UNCHANGED <<enginevars, netvars, connvars, storevars>>

\* leave_room from the DELETE to the commit.  room.host_session_id is a
\* uuid.UUID and session_id a str: Python's == and != compare the records
LeaveRoom(c) ==
    /\ requests[c].op = "leave_room"
    /\ requests[c].pc = "delete"
    /\ LET session_id == requests[c].session_id
           room_id == requests[c].room_id
           left == SelectSeq(database.user_to_room, LAMBDA m :
                       ~(m.user_id.value = session_id.value /\ m.room_id = room_id))
           remaining_sessions ==
               SelectSeq(requests[c].user_memberships,
                         LAMBDA m : m.user_id # session_id)
       IN  IF requests[c].host_session_id = session_id
           THEN IF remaining_sessions # <<>>
                THEN database' =
                         [database EXCEPT
                             !.user_to_room = left,
                             !.game_rooms[room_id].host_session_id =
                                 remaining_sessions[1].user_id]
                ELSE database' =
                         [database EXCEPT
                             !.user_to_room =
                                 SelectSeq(left, LAMBDA m : m.room_id # room_id),
                             !.game_rooms[room_id] = NoRoom]
           ELSE database' = [database EXCEPT !.user_to_room = left]
    /\ Return(c, "none")
    /\ UNCHANGED <<enginevars, netvars, connvars, storevars>>

NextRooms ==
    \E c \in Requests :
        \/ Arrive(c)
        \/ JoinFindRoom(c)
        \/ FindMembership(c)
        \/ FindCurrentRoom(c)
        \/ CreateRoom(c)
        \/ JoinRoom(c)
        \/ LeaveFindMembership(c)
        \/ LeaveFindRoom(c)
        \/ LeaveRoom(c)

SpecRooms == Init /\ [][NextRooms]_vars

(***************************************************************************)
(* Claims about the Engine                                                 *)
(***************************************************************************)

\* process_messages took one message from the queue and handled it
Handled == pc = "processing" /\ pc' = "processing" /\ message_queue # <<>>

\* cards in the hands of players 1..n
RECURSIVE CardsInHands(_)
CardsInHands(n) ==
    IF n = 0 THEN 0 ELSE Len(players[n].hand) + CardsInHands(n - 1)

\* C1 - card conservation: in every state the Engine reaches, the cards in
\* all hands, on the discard pile, in the deck and the drawn card (if one is
\* held) add up to the size of the deck the game was built with.
C1_CardConservation ==
    CardsInHands(NumPlayers) + Len(discard_pile) + Len(deck)
        + (IF state.drawn_card # NoCard THEN 1 ELSE 0) = InitialDeckSize

\* C2 - ENDED is terminal: once the phase is ENDED no step changes the phase,
\* the winner, the current player or any hand.
C2_EndedIsTerminal ==
    [][state.phase = "ended" =>
          /\ state'.phase = "ended"
          /\ state'.winner = state.winner
          /\ state'.current_player_index = state.current_player_index
          /\ \A i \in 1..NumPlayers : players'[i].hand = players[i].hand]_vars

\* C3 - a rejected message is a no-op: handling it leaves the whole game
\* state and the event log unchanged and puts no message on the queue.
C3_RejectedIsNoOp ==
    [][Handled /\ ~result'.success =>
          /\ UNCHANGED gamevars
          /\ events' = events
          /\ message_queue' = Tail(message_queue)]_vars

\* C4 - first CALL_STACK wins: for one played card at most one CALL_STACK is
\* accepted, and a CALL_STACK handled while a stack caller is set is rejected
\* and changes neither the game state nor the event log.
C4_FirstStackCallWins ==
    [][Handled /\ result'.type = "call_stack" =>
          /\ history'.stack_calls <= 1
          /\ (state.stack_caller # Nil =>
                 /\ ~result'.success
                 /\ UNCHANGED gamevars
                 /\ events' = events)]_vars

\* the players after the Cabo caller c, in seat order
FinalRound(c) == [i \in 1..(NumPlayers - 1) |-> ((c - 1 + i) % NumPlayers) + 1]

\* C5 - Cabo final round: when a game in which player c called Cabo has
\* ended, the turn has passed once to every other player in seat order and
\* never back to c, every other player has drawn exactly once since the call
\* and c has not drawn; a NEXT_TURN puts END_GAME on the queue when the next
\* seat is c's and passes the turn on to another player otherwise.
C5_CaboFinalRound ==
    /\ (state.phase = "ended" /\ state.cabo_caller # Nil) =>
           /\ history.final_turns = FinalRound(state.cabo_caller)
           /\ \A p \in PlayerIds :
                  history.final_draws[p] =
                      IF p = state.cabo_caller THEN 0 ELSE 1
    /\ (result.type = "next_turn" /\ result.success) =>
           IF result.next_messages = <<"end_game">>
           THEN /\ state.cabo_caller # Nil
                /\ (state.current_player_index + 1) % NumPlayers
                       = state.cabo_caller - 1
           ELSE state.cabo_caller # Nil =>
                    state.current_player_index # state.cabo_caller - 1

\* C6 - one draw per turn: between two changes of turn at most one DRAW_CARD
\* is accepted.
C6_OneDrawPerTurn == history.turn_draws <= 1

\* C7 - CALL_CABO is accepted only from the current player, only when no card
\* has been drawn since the turn began and only when no Cabo call was made
\* before; a Cabo caller, once set, never changes.
C7_CallCaboConditions ==
    [][/\ (Handled /\ result'.type = "call_cabo" /\ result'.success) =>
              /\ state'.cabo_caller = get_current_player(Game).player_id
              /\ history.turn_draws = 0
              /\ state.cabo_caller = Nil
       /\ state.cabo_caller # Nil => state'.cabo_caller = state.cabo_caller]_vars

\* C8 - a SETUP_TIMEOUT handled after the game has left SETUP is ignored: the
\* phase, the current player and the visibility map stay as they are and no
\* event is added to the log.
C8_StaleSetupTimeoutIgnored ==
    [][(Handled /\ result'.type = "setup_timeout" /\ state.phase # "setup") =>
          /\ state'.phase = state.phase
          /\ state'.current_player_index = state.current_player_index
          /\ state'.temporarily_viewed_cards = state.temporarily_viewed_cards
          /\ events' = events]_vars

\* the phases in which the timer of a timeout message is armed
ArmingPhases(type) ==
    CASE type = "turn_transition_timeout" -> {"turn_transition"}
      [] type = "special_action_timeout" ->
             {"waiting_for_special_action", "king_view_phase", "king_swap_phase"}
      [] type = "stack_timeout" -> {"stack_called"}
      [] OTHER -> {}

\* C9 - late timeouts are inert: a turn-transition, special-action or stack
\* timeout handled after the Engine has left the phase that armed its timer
\* changes no game state and adds no event.
C9_LateTimeoutInert ==
    [][(/\ Handled
        /\ result'.type \in {"turn_transition_timeout",
                             "special_action_timeout", "stack_timeout"}
        /\ state.phase \notin ArmingPhases(result'.type)) =>
          /\ UNCHANGED gamevars
          /\ events' = events
          /\ message_queue' = Tail(message_queue)]_vars

(***************************************************************************)
(* Claims about the broadcast                                              *)
(***************************************************************************)

\* C10 - per receiver sequence order: of two messages sent to the same
\* session the one sent later has the strictly greater seq_num, so every
\* session is sent its messages in seq_num order.
C10_SeqOrderPerReceiver ==
    \A s \in Sessions :
        \A i, j \in 1..Len(received[s]) :
            i < j => received[s][i] < received[s][j]

\* C11 - gap-free sequence numbers: a session that stays connected is sent
\* consecutive seq_nums, none skipped and none repeated.
C11_GapFreePerReceiver ==
    \A s \in Sessions \ {EndpointSession} :
        \A i \in 1..(Len(received[s]) - 1) :
            received[s][i + 1] = received[s][i] + 1

\* C12 - synchronize on reconnect: when the session whose last acknowledged
\* seq was k at its disconnect is synchronized, it is sent the latest
\* checkpoint, then exactly the messages k+1 .. current_seq in increasing
\* order with none missing, then ready with current_seq, and its cursor is
\* current_seq afterwards.
C12_SynchronizeOnReconnect ==
    [][SendReady =>
          /\ synced'.checkpoint = player_checkpoints[EndpointSession]
          /\ synced'.messages =
                 [i \in 1..(synced'.ready - synced.k) |-> synced.k + i]
          /\ client_sequences'[EndpointSession] = synced'.ready]_vars

\* C13 - send_to_session without an active connection: every message
\* send_to_session was called with for a session is in that session's outbox,
\* whether or not the session had an active connection at the time.
C13_OutboxKeepsUndelivered ==
    \A s \in Sessions : sent_to[s] \subseteq SeqNums(outbox[s])

\* C14 - the acknowledged-sequence cursor never rewinds: handling an
\* acknowledge lowers the cursor of no session, neither in the connection
\* record nor in the sequencer's client sequence nor in the stored cursor.
C14_CursorNeverRewinds ==
    [][\A s \in Sessions : \A n \in 1..MaxSeq :
           AcknowledgeSequence(s, n) =>
               /\ last_ack_seq'[s] >= last_ack_seq[s]
               /\ client_sequences'[s] >= client_sequences[s]
               /\ cursor'[s] >= cursor[s]]_vars

\* the connections of the session that are active
ActiveConnections == {c \in ConnectionIds : connections[c] = "active"}

\* C15 - one active connection per session: whatever the interleaving of
\* registrations, reconnects and disconnects, at most one connection of the
\* session is active, and once no registration is under way every transport
\* other than the session's current one has been closed.
C15_OneActiveConnection ==
    /\ Cardinality(ActiveConnections) <= 1
    /\ (\A r \in Registrations : registrations[r].pc \in {"new", "done"}) =>
           \A c \in ConnectionIds :
               Registered(c) /\ c # session_to_connection => c \in closed

\* C16 - snapshot round trip: whenever save_game is called for a game, it
\* writes a snapshot from which load_game reconstructs a game equal to the
\* one saved, whatever order the player keys are scanned in, and saving the
\* loaded game leaves the snapshot as it is.
C16_SnapshotRoundTrip ==
    [][CreateGame \/ SaveGame =>
          /\ ~processor'.raised
          /\ \A order \in ScanOrders :
                 /\ load_game(snapshot', order) = Game'
                 /\ save_game(snapshot', load_game(snapshot', order)) =
                        snapshot']_vars

\* C17 - no partially written snapshot is readable: the keys a finished
\* load_game has read are the keys of one snapshot the room has held.
C17_LoadReadsOneSnapshot ==
    \A l \in Loaders :
        loads[l].pc = 0 /\ loads[l].found => loads[l].read \in written

\* C18: a viewer learns the card of a hand slot exactly when the slot is in
\* its visibility set: whenever a message was handled, every hand slot whose
\* card the resulting event names to a session is in that session's
\* temporarily_viewed_cards
C18_HandCardsHiddenFromOthers ==
    [][Handled =>
          \A v \in PlayerIds : \A slot \in history'.event_cards :
              slot \in state'.temporarily_viewed_cards[v]]_vars

\* the seq_nums of the messages session s was sent, live or by synchronize
Delivered(s) ==
    SeqNums(received[s])
        \cup (IF s = EndpointSession THEN SeqNums(synced.messages) ELSE {})

\* C19: while a card is drawn and not yet played (card_drawn is the last
\* game event of the room), no message that carries the card was delivered
\* to a session other than the drawer's
C19_DrawnCardOnlyToDrawer ==
    drawer # NoSuchPlayer =>
        \A s \in Sessions \ {drawer} :
            \A q \in Delivered(s) : message_data[q] # published

\* C20: after an accepted REPLACE_AND_PLAY(i) of player p, slot i of p's hand
\* holds the card that was drawn, the card that lay there is the played card
\* and the top of the discard pile, and (p, i) is in p's visibility set
C20_ReplaceAndPlay ==
    [][\A p \in Senders : \A i \in Indices :
          LET r == handle_replace_and_play(Game, ReplaceAndPlayMessage(p, i))
              seat == state.current_player_index + 1
          IN  Handled /\ result'.type = "replace_and_play" /\ r.success
                  /\ Game' = r.g
              => /\ players'[seat].hand[i + 1] = state.drawn_card
                 /\ state'.played_card = players[seat].hand[i + 1]
                 /\ discard_pile' # <<>>
                 /\ discard_pile'[Len(discard_pile')] = players[seat].hand[i + 1]
                 /\ <<p, i>> \in state'.temporarily_viewed_cards[p]]_vars

ActionTypeOf(type) ==
    IF type = "view_own_card" THEN "view_own"
    ELSE IF type = "view_opponent_card" THEN "view_opponent"
    ELSE "swap_opponent"

\* C22: while a special action of type T is pending in
\* WAITING_FOR_SPECIAL_ACTION, a VIEW_OWN_CARD, VIEW_OPPONENT_CARD or
\* SWAP_CARDS message that does not match T is rejected and the pending
\* action stays open
C22_WrongSpecialActionRejected ==
    [][Handled /\ state.phase = "waiting_for_special_action"
              /\ result'.type \in {"view_own_card", "view_opponent_card",
                                   "swap_cards"}
              /\ ActionTypeOf(result'.type) # state.special_action_type
          => /\ ~result'.success
             /\ state'.phase = "waiting_for_special_action"
             /\ state'.special_action_type = state.special_action_type
             /\ state'.special_action_player = state.special_action_player]_vars

\* C23: END_GAME sets the phase to ENDED and the winner to the player with
\* the lowest hand score; final_scores lists every player once in ascending
\* score order, and among equal scores the lower seat index comes first
C23_EndGameScores ==
    [][Handled /\ result'.type = "end_game"
          => LET fs == final_scores(players')
                 seat(k) == get_player_by_id(Game', fs[k].player_id)
             IN  /\ result'.success
                 /\ state'.phase = "ended"
                 /\ \A i \in 1..NumPlayers :
                        get_score(players'[get_player_by_id(Game', state'.winner)].hand)
                            <= get_score(players'[i].hand)
                 /\ fs[1].player_id = state'.winner
                 /\ Len(fs) = NumPlayers
                 /\ \A i \in 1..NumPlayers : \E k \in 1..Len(fs) :
                        /\ fs[k].player_id = players'[i].player_id
                        /\ fs[k].score = get_score(players'[i].hand)
                 /\ \A k \in 1..(Len(fs) - 1) :
                        \/ fs[k].score < fs[k + 1].score
                        \/ fs[k].score = fs[k + 1].score /\ seat(k) < seat(k + 1)]_vars

\* two players have the same hand score
ScoresTied ==
    \E i, j \in 1..NumPlayers :
        i # j /\ get_score(players[i].hand) = get_score(players[j].hand)

\* END_GAME was handled with two players on the same score
C23_GameEnded ==
    /\ pc = "processing"
    /\ result.type = "end_game"
    /\ state.phase = "ended"
    /\ state.winner # Nil
    /\ ScoresTied

\* hand with the card at 0-based index i taken out
Without(hand, i) ==
    [k \in 1..(Len(hand) - 1) |-> IF k <= i THEN hand[k] ELSE hand[k + 1]]

\* C24: an accepted EXECUTE_STACK(card_index, target) by the stack caller:
\* if the chosen card's rank equals the played card's rank the card leaves
\* the caller's hand, to the discard pile for a self-stack and to the end of
\* the target's hand when a target is given (which is the caller's own hand
\* again when the caller names itself); otherwise the caller's hand
\* gains exactly one card, the top of the deck, when the deck is not empty
\* and is unchanged when the deck is empty
C24_ExecuteStack ==
    [][Handled /\ result'.type = "execute_stack" /\ result'.success
          => \A p \in Senders : \A i \in Indices : \A t \in Targets \cup {Nil} :
                 LET r == handle_execute_stack(Game, ExecuteStackMessage(p, i, t))
                     seat == get_player_by_id(Game, p)
                     target == get_player_by_id(Game, t)
                     hand == players[seat].hand
                     card == hand[i + 1]
                 IN  r.success /\ Game' = r.g
                     => /\ p = state.stack_caller
                        /\ IF card.rank = state.played_card.rank
                           THEN IF t = Nil
                                THEN /\ players'[seat].hand = Without(hand, i)
                                     /\ discard_pile' = Append(discard_pile, card)
                                     /\ deck' = deck
                                ELSE /\ players'[target].hand =
                                            Append(IF target = seat
                                                   THEN Without(hand, i)
                                                   ELSE players[target].hand, card)
                                     /\ target # seat =>
                                            players'[seat].hand = Without(hand, i)
                                     /\ discard_pile' = discard_pile
                                     /\ deck' = deck
                           ELSE /\ discard_pile' = discard_pile
                                /\ IF deck # <<>>
                                   THEN /\ players'[seat].hand =
                                               Append(hand, deck[Len(deck)])
                                        /\ Len(deck') = Len(deck) - 1
                                   ELSE /\ players'[seat].hand = hand
                                        /\ deck' = deck]_vars

\* a stack with a card of another rank was executed on an empty deck: the
\* hands hold what was dealt and no more
C24_FailedStackOnEmptyDeck ==
    /\ pc = "processing"
    /\ result.type = "execute_stack"
    /\ result.events = <<"stack_failed">>
    /\ deck = <<>>
    /\ \A i \in 1..NumPlayers : Len(players[i].hand) = HandSize

(***************************************************************************)
(* Claims about rooms                                                      *)
(***************************************************************************)

\* the sessions with a membership in room r
Members(db, r) ==
    {db.user_to_room[i].user_id :
        i \in {j \in 1..Len(db.user_to_room) : db.user_to_room[j].room_id = r}}

\* C25: after every create, join and leave the host id of a room with at
\* least one member is the id of a member, and when the host leaves a room
\* in which members remain the host becomes the one of them who joined first
C25_HostIsMember ==
    [][\A r \in RoomIds :
          LET room == database.game_rooms[r]
              after == database'.game_rooms[r]
          IN  /\ (after.exists /\ Members(database', r) # {})
                  => after.host_session_id \in Members(database', r)
              /\ (/\ room.exists /\ after.exists
                  /\ room.host_session_id \in Members(database, r)
                  /\ room.host_session_id \notin Members(database', r)
                  /\ Members(database', r) # {})
                  => after.host_session_id =
                         memberships_in(database', r)[1].user_id]_vars

\* C26: a session is a member of at most one room at any time, however the
\* create_room, join_room and leave_room calls interleave
C26_OneRoomPerSession ==
    \A u \in RoomUsers :
        Cardinality({r \in RoomIds : UUID(u) \in Members(database, r)}) <= 1

\* C27: once the Engine's phase is ENDED and saved, the round of the room
\* loop that begins next finds the game ended and leaves the loop for
\* end_game instead of draining the queue, and the end_game of the loop
\* runs the cleanup: the keys of the game are deleted and game_cleanup is
\* broadcast
C27_EndedGameIsCleanedUp ==
    [][/\ (/\ processor.pc = "loop" /\ processor'.pc # "loop"
           /\ processor'.pc # "new"
           /\ state.phase = "ended"
           /\ snapshot.exists /\ snapshot.meta.phase = "ended")
          => processor'.pc = "end_game"
       /\ (/\ processor.pc = "end_game" /\ processor'.pc = "stopped"
           /\ state.phase = "ended")
          => (processor'.cleanup /\ ~snapshot'.exists)]_vars

\* C28: the room is listed by list_active_games exactly when its meta key
\* exists and the phase stored in it is not ENDED, and no processor is
\* started by restore_all_active_games for a room whose stored game has
\* ended
C28_EndedGameIsNotActive ==
    [][/\ list_active_games(snapshot)
           <=> (snapshot.exists /\ snapshot.meta.phase # "ended")
       /\ (processor.pc = "new" /\ processor'.pc = "loop")
          => snapshot.meta.phase # "ended"]_vars

\* C29: the room has at most one loop task, nothing but that task's
\* save_game changes the stored game, and the game a round of the loop
\* processes is the CaboGame object the round before left, not another one
\* made from the keys in Redis
C29_LoopKeepsItsEngine ==
    [][/\ processor.tasks <= 1
       /\ (snapshot' # snapshot /\ snapshot'.exists) => processor.pc = "save"
       /\ (/\ processor.pc = "loading" /\ processor'.pc # "loading"
           /\ processor'.pc # "new"
           /\ card_visibility)
          => \A order \in ScanOrders :
                 load_game(loads["processor"].read, order) = Game]_vars

\* C30: when the cleanup task of a grace period wakes up and the session's
\* connection is active again, the task returns at once: in that step no
\* connection, websocket or transport changes, the session keeps its
\* connection and grace:{session} stays as it is, and the task never
\* deletes anything later
C30_CleanupLeavesReconnectedSession ==
    [][\A c \in ConnectionIds :
           (/\ grace.cleanups[c] = "sleeping"
            /\ grace'.cleanups[c] # "sleeping"
            /\ session_to_connection # Nil
            /\ connections[session_to_connection] = "active")
           => /\ grace'.cleanups[c] = "returned"
              /\ grace'.key = grace.key
              /\ UNCHANGED <<connections, session_to_connection, websockets,
                             closed>>]_vars

C30_CleanupFoundSessionActive ==
    \E c \in ConnectionIds :
        /\ grace.cleanups[c] = "returned"
        /\ grace.key = c
        /\ session_to_connection # Nil
        /\ session_to_connection # c
        /\ connections[session_to_connection] = "active"

(***************************************************************************)
(* Claims about stacks, turns and timers                                   *)
(***************************************************************************)

\* C31 - a CALL_STACK accepted in PLAYING or TURN_TRANSITION enters
\* STACK_CALLED with a stack timer pending and the turn-transition timer
\* cancelled, and a TURN_TRANSITION_TIMEOUT handled while the stack is
\* pending - also one the same _check_timeouts queued behind the CALL_STACK -
\* changes neither the phase nor the current player and puts no NEXT_TURN
\* on the queue.
C31_StackCallStopsTurnTransition ==
    [][/\ (/\ Handled
           /\ result'.type = "call_stack" /\ result'.success
           /\ state.phase \in {"playing", "turn_transition"})
          => /\ state'.phase = "stack_called"
             /\ state'.stack_timer_id \in UsedTimers(Game')
             /\ state'.turn_transition_timer_id = Nil
             /\ \A i \in 1..Len(pending_timeouts') :
                    pending_timeouts'[i] = state.turn_transition_timer_id
                        => pending_timeouts'[i] = state'.stack_timer_id
       /\ (/\ Handled
           /\ result'.type = "turn_transition_timeout"
           /\ state.phase = "stack_called")
          => /\ state'.phase = "stack_called"
             /\ state'.current_player_index = state.current_player_index
             /\ message_queue' = Tail(message_queue)]_vars

\* the phases in which a special action is pending
SpecialActionPhases ==
    {"waiting_for_special_action", "king_view_phase", "king_swap_phase"}

\* the messages that end a pending special action
SpecialActionEnds ==
    {"view_own_card", "view_opponent_card", "swap_cards", "king_swap_cards",
     "king_skip_swap", "special_action_timeout"}

\* C32 - a CALL_STACK accepted while a special action is pending changes
\* nothing but stack_caller; when the special action then is resolved or
\* times out with a stack caller recorded, the phase becomes STACK_CALLED
\* with a stack timer pending and no turn-transition timer is armed.
C32_StackDeferredBySpecialAction ==
    [][/\ (/\ Handled
           /\ result'.type = "call_stack" /\ result'.success
           /\ state.phase \in SpecialActionPhases)
          => /\ \E p \in PlayerIds : state' = [state EXCEPT !.stack_caller = p]
             /\ UNCHANGED <<deck, discard_pile, players, pending_timeouts>>
             /\ message_queue' = Tail(message_queue)
       /\ (/\ Handled
           /\ result'.type \in SpecialActionEnds /\ result'.success
           /\ state.phase \in SpecialActionPhases
           /\ state.stack_caller # Nil)
          => /\ state'.phase = "stack_called"
             /\ state'.stack_caller = state.stack_caller
             /\ \E i \in 1..Len(pending_timeouts') :
                    pending_timeouts'[i] = state'.stack_timer_id
             /\ state'.turn_transition_timer_id = state.turn_transition_timer_id
             /\ message_queue' = Tail(message_queue)]_vars

\* a special action ended while a stack caller was recorded
C32_SpecialActionEndedWithCaller ==
    /\ result.type \in SpecialActionEnds /\ result.success
    /\ state.phase = "stack_called"
    /\ state.stack_caller # Nil
    /\ state.played_card # NoCard
    /\ state.special_action_player = Nil

\* C33 - the phase STACK_CALLED is left only by an accepted EXECUTE_STACK or
\* STACK_TIMEOUT, and each of them leaves stack_caller null, the stack timer
\* removed and exactly one NEXT_TURN put on the queue.
C33_EveryStackResolves ==
    [][(Handled /\ state.phase = "stack_called")
          => /\ (state'.phase # "stack_called")
                    => /\ result'.type \in {"execute_stack", "stack_timeout"}
                       /\ result'.success
             /\ (result'.type \in {"execute_stack", "stack_timeout"}
                     /\ result'.success)
                    => /\ state'.stack_caller = Nil
                       /\ state'.stack_timer_id = Nil
                       /\ \A i \in 1..Len(pending_timeouts') :
                              pending_timeouts'[i] # state.stack_timer_id
                       /\ result'.next_messages = <<"next_turn">>
                       /\ message_queue' = Tail(message_queue) \o <<"next_turn">>]_vars

\* C34 - a PLAY_DRAWN_CARD or REPLACE_AND_PLAY is accepted only in phase
\* PLAYING while a drawn card is held (and then passes the turn's card to the
\* discard pile); handled in any other phase it is rejected and changes
\* nothing.
C34_PlayOnlyInPlaying ==
    [][(Handled /\ result'.type \in {"play_drawn_card", "replace_and_play"})
          => /\ result'.success
                 => (state.phase = "playing" /\ state.drawn_card # NoCard)
             /\ (state.phase # "playing")
                 => (~result'.success /\ UNCHANGED gamevars)]_vars

\* C35 - the intents of a room are handled in the order they were pushed:
\* the i-th intent the Engine handles is the i-th intent pushed, a rejected
\* one included, and after a round no popped intent is left unhandled.
C35_IntentsHandledInPushOrder ==
    /\ \A i \in 1..Len(inbound.handled) : inbound.handled[i].timestamp = i
    /\ Len(inbound.handled) + Len(inbound.messages) + Len(inbound.queue)
           = inbound.pushed
    /\ processor.pc \in {"save", "loop"} => inbound.messages = <<>>

\* a rejected intent was followed by an accepted one that was pushed before
\* the round began
C35_AcceptedAfterRejected ==
    \E i \in 1..Len(inbound.handled) :
        /\ i > 1
        /\ ~inbound.handled[i - 1].success
        /\ inbound.handled[i].success
        /\ inbound.handled[i].timestamp = inbound.handled[i - 1].timestamp + 1

\* C36 - one NEXT_TURN per completed turn: every NEXT_TURN the Engine
\* handles follows a play or a CALL_CABO accepted since the NEXT_TURN before
\* it, a play is accepted only as the first one of its turn, and a turn
\* change moves the current player to the next seat.
C36_OneNextTurnPerTurn ==
    [][/\ (Handled /\ result'.type = "next_turn")
          => /\ history.turn_ends >= 1
             /\ "turn_changed" \in {result'.events[i] :
                                        i \in 1..Len(result'.events)}
                    => state'.current_player_index =
                           (state.current_player_index + 1) % NumPlayers
       /\ (/\ Handled
           /\ result'.type \in {"play_drawn_card", "replace_and_play"}
           /\ result'.success)
          => history.turn_ends = 0]_vars

\* C37 - stack_caller is set only in the phases STACK_CALLED,
\* WAITING_FOR_SPECIAL_ACTION, KING_VIEW_PHASE and KING_SWAP_PHASE, and once
\* the current player has changed stack_caller is null and no stack timer
\* is left.
C37_StackCallerOnlyWhileStackOpen ==
    [][/\ state'.stack_caller # Nil
              => state'.phase \in {"stack_called"} \cup SpecialActionPhases
       /\ state'.current_player_index # state.current_player_index
              => /\ state'.stack_caller = Nil
                 /\ state'.stack_timer_id = Nil]_vars

\* C38 - special_action_player is set exactly in the phases
\* WAITING_FOR_SPECIAL_ACTION, KING_VIEW_PHASE and KING_SWAP_PHASE, and once
\* the current player has changed no special-action player, type or timer
\* is left.
C38_SpecialActionOnlyInItsTurn ==
    [][/\ state'.special_action_player # Nil
              <=> state'.phase \in SpecialActionPhases
       /\ state'.current_player_index # state.current_player_index
              => /\ state'.special_action_player = Nil
                 /\ state'.special_action_type = "None"
                 /\ state'.special_action_timer_id = Nil]_vars

\* C39 - when the current player changes, the visibility set of every
\* player is empty.
C39_TurnChangeClearsVisibility ==
    [][state'.current_player_index # state.current_player_index
          => \A p \in PlayerIds : state'.temporarily_viewed_cards[p] = {}]_vars

\* the timers still pending
Pending == {pending_timeouts[i] : i \in 1..Len(pending_timeouts)}

\* the messages waiting in the Engine's queue
Queued == {message_queue[i] : i \in 1..Len(message_queue)}

\* C40 (as stated) - in every state whose phase is SETUP, TURN_TRANSITION,
\* WAITING_FOR_SPECIAL_ACTION, KING_VIEW_PHASE, KING_SWAP_PHASE or
\* STACK_CALLED the timer of the phase is pending or the timeout message
\* _check_timeouts put for it is waiting in the queue.
C40_PhaseTimerArmed ==
    /\ state.phase = "setup"
           => state.setup_timer_id \in Pending \/ "setup_timeout" \in Queued
    /\ state.phase = "turn_transition"
           => \/ state.turn_transition_timer_id \in Pending
              \/ "turn_transition_timeout" \in Queued
    /\ state.phase \in SpecialActionPhases
           => \/ state.special_action_timer_id \in Pending
              \/ "special_action_timeout" \in Queued
    /\ state.phase = "stack_called"
           => state.stack_timer_id \in Pending \/ "stack_timeout" \in Queued

\* the turn transition has timed out and the NEXT_TURN, or the END_GAME
\* that followed it, has not been handled yet
TurnEnding ==
    /\ state.phase = "turn_transition"
    /\ state.turn_transition_timer_id \notin Pending
    /\ "turn_transition_timeout" \notin Queued
    /\ Queued \cap {"next_turn", "end_game"} # {}

\* C40 - in every such state the timer of the phase is pending, or its
\* timeout message is queued, or the phase is TURN_TRANSITION and the
\* NEXT_TURN its timeout put, or the END_GAME after that, is queued.
C40_PhaseTimerArmedOrTurnEnding == C40_PhaseTimerArmed \/ TurnEnding

\* the turn transition timed out and its NEXT_TURN is waiting
C40_NextTurnQueued == TurnEnding /\ "next_turn" \in Queued

====
